---- MODULE Spec2Model ----
(***************************************************************************)
(* Model of the retrieval core of chatbot_backend/app.py:                  *)
(*   - WebStoreKnowledgeBase: build_knowledge_embeddings (rebuild) and     *)
(*     search_knowledge (query) over the shared vector collection;         *)
(*   - the order-status derivation of get_order_by_id and                  *)
(*     get_order_by_tracking_number.                                       *)
(* Strings are sequences of tokens, so that str.replace and str.lower are  *)
(* computed and not assumed.  An optional value (SQL NULL, a missing dict  *)
(* key) is the empty sequence <<>>, a present value v is <<v>>.            *)
(***************************************************************************)
EXTENDS Integers, Sequences, FiniteSets, TLC

\* ------------------------------------------------------------------ bounds
NumWorkers == 2     \* request threads that may run a rebuild at the same time
MaxRebuilds == 2    \* rebuild calls per behaviour
MaxUpdates == 1     \* catalog changes per behaviour
MaxK == 2           \* largest n_results asked of search_knowledge
BatchSize == 1      \* batch_size of the add loop, scaled down from 100
UnitsPerDay == 2    \* clock ticks per day: timestamps carry a time of day
MaxTime == 16       \* last clock tick of a behaviour
DaysPerYear == 6    \* calendar days after which month and day repeat
MaxSaves == 3        \* save_message_to_history calls per behaviour
PersistedMessages == 6  \* messages of a session that an earlier run of the server stored
MaxSeed == 1        \* hash seeds of a process: iteration orders of a set
MaxWords == 2       \* words of a description

Workers == 1..NumWorkers

Min(a, b) == IF a < b THEN a ELSE b

\* ----------------------------------------------------------- string helpers
\* str.replace(from, to) on a token sequence.
Replace(s, from, to) == [i \in 1..Len(s) |-> IF s[i] = from THEN to ELSE s[i]]

LowerChar(c) == CASE c = "T" -> "t"
                  [] c = "S" -> "s"
                  [] c = "B" -> "b"
                  [] c = "Red" -> "red"
                  [] c = "Cotton" -> "cotton"
                  [] c = "Shirt" -> "shirt"
                  [] OTHER -> c

\* str.lower()
Lower(s) == [i \in 1..Len(s) |-> LowerChar(s[i])]

\* str(i) for the small integers used as feature positions.
Str(i) == <<"0", "1", "2", "3", "4", "5", "6", "7", "8", "9">>[i + 1]

\* ---------------------------------------------------------- knowledge data
\* self.website_features, scaled down: one page, one feature, one policy.
WebsitePages == << [page |-> <<"/", "shop">>, description |-> "Catalog"] >>
WebsiteFeatureList == << "User registration" >>
WebsitePolicies == << [policy_type |-> "shipping", policy_text |-> "Free shipping"] >>

\* product_type values of the catalog.  CatSpace and CatUnder differ in
\* letter case and in space versus underscore.
CatSpace == <<"t", " ", "s">>
CatUnder == <<"T", "_", "s">>
CatBag == <<"B", "a", "g">>
CategoryNames == {CatSpace, CatUnder, CatBag}

ProductIds == <<"1", "2">>

Row(id, type, price) == [product_id |-> id, product_type |-> type, product_price |-> price]

\* Rows of `product p LEFT JOIN inventory i`: product_price is <<>> for NULL.
RowsOf1 == {Row(ProductIds[1], CatSpace, <<"10">>), Row(ProductIds[1], CatBag, <<>>)}
RowsOf2 == {Row(ProductIds[2], CatUnder, <<"10">>)}

\* The catalog: at most one row per product_id, in product_id order.
Catalogs == {<<>>}
            \cup {<<r>> : r \in RowsOf1 \cup RowsOf2}
            \cup {<<r1, r2>> : r1 \in RowsOf1, r2 \in RowsOf2}

NoMeta == [type |-> "", key |-> <<>>, category |-> <<>>, price |-> <<>>]

\* ------------------------------------------------------------- embeddings
\* self.embedder.encode(text): a deterministic black box.  The model embeds
\* a text as the set of its tokens; the distance of two embeddings is the
\* size of their symmetric difference.
Encode(text) == {text[i] : i \in 1..Len(text)}
Distance(e1, e2) == Cardinality((e1 \ e2) \cup (e2 \ e1))

\* --------------------------------------------------------------- rendering
PageDoc(p) ==
    [id |-> <<"page_">> \o Replace(p.page, "/", "_"),
     text |-> <<"Page">> \o p.page \o <<p.description>>,
     meta |-> [NoMeta EXCEPT !.type = "page", !.key = p.page]]

FeatureDoc(i) ==
    [id |-> <<"feature_", Str(i)>>,
     text |-> <<"Website feature:", WebsiteFeatureList[i + 1]>>,
     meta |-> [NoMeta EXCEPT !.type = "feature", !.key = <<Str(i)>>]]

PolicyDoc(p) ==
    [id |-> <<"policy_", p.policy_type>>,
     text |-> <<p.policy_type, "Policy:", p.policy_text>>,
     meta |-> [NoMeta EXCEPT !.type = "policy", !.key = <<p.policy_type>>]]

\* float(product.get('product_price', 0)) raises TypeError on NULL.
FloatRaises(row) == row.product_price = <<>>

PriceText(row) == IF row.product_price = <<>> THEN <<"None">> ELSE row.product_price

ProductDoc(row) ==
    [id |-> <<"product_", row.product_id>>,
     text |-> <<"Product:", row.product_id, "Category:">> \o row.product_type
                \o <<"Price:">> \o PriceText(row),
     meta |-> [type |-> "product", key |-> <<row.product_id>>,
               category |-> row.product_type, price |-> row.product_price]]

CategoryDoc(c) ==
    [id |-> <<"category_">> \o Replace(Lower(c), " ", "_"),
     text |-> <<"Product category:">> \o c,
     meta |-> [NoMeta EXCEPT !.type = "category", !.category = c]]

StaticDocs ==
    [i \in 1..Len(WebsitePages) |-> PageDoc(WebsitePages[i])]
    \o [i \in 1..Len(WebsiteFeatureList) |-> FeatureDoc(i - 1)]
    \o [i \in 1..Len(WebsitePolicies) |-> PolicyDoc(WebsitePolicies[i])]

RECURSIVE DistinctTypes(_)
\* SELECT DISTINCT product_type FROM product, in row order.
DistinctTypes(rows) ==
    IF rows = <<>> THEN <<>>
    ELSE LET rest == DistinctTypes(SubSeq(rows, 1, Len(rows) - 1))
             t == rows[Len(rows)].product_type
         IN IF \E i \in 1..Len(rest) : rest[i] = t THEN rest ELSE Append(rest, t)

\* extract_database_content(): the rows and their distinct types.  Its {}
\* for a missing or failing database reads like an empty catalog.
ExtractDatabaseContent(rows) ==
    [products |-> rows, categories |-> DistinctTypes(rows)]

\* The product loop stops with TypeError at the first row whose price is NULL.
RenderRaises(content) ==
    \E i \in 1..Len(content.products) : FloatRaises(content.products[i])

\* The documents list build_knowledge_embeddings hands to the add loop.
RenderAll(content) ==
    StaticDocs
    \o [i \in 1..Len(content.products) |-> ProductDoc(content.products[i])]
    \o [i \in 1..Len(content.categories) |-> CategoryDoc(content.categories[i])]

\* ------------------------------------------------------------ vector store
Ids(docs) == {docs[i].id : i \in 1..Len(docs)}
DocSet(docs) == {docs[i] : i \in 1..Len(docs)}
DistinctIds(docs) == \A i, j \in 1..Len(docs) : docs[i].id = docs[j].id => i = j

RECURSIVE AppendNew(_, _)
\* collection.add of a batch whose ids are pairwise distinct: an id the
\* collection already holds is left as it is.
AppendNew(coll, batch) ==
    IF batch = <<>> THEN coll
    ELSE LET c == AppendNew(coll, SubSeq(batch, 1, Len(batch) - 1))
             d == batch[Len(batch)]
         IN IF d.id \in Ids(coll) THEN c ELSE Append(c, d)

\* Why collection.add raises, or "" when it stores the batch.
AddError(coll, batch, policy) ==
    IF ~DistinctIds(batch) THEN "duplicate_ids"
    ELSE IF policy = "raise" /\ Ids(batch) \cap Ids(coll) # {} THEN "id_exists"
    ELSE ""

RECURSIVE Nearest(_, _, _)
\* collection.query: the n nearest documents, nearest first, ties in
\* insertion order.
Nearest(coll, e, n) ==
    IF n = 0 \/ coll = <<>> THEN <<>>
    ELSE LET best == CHOOSE i \in 1..Len(coll) :
                        \A j \in 1..Len(coll) :
                            \/ Distance(Encode(coll[i].text), e) < Distance(Encode(coll[j].text), e)
                            \/ /\ Distance(Encode(coll[i].text), e) = Distance(Encode(coll[j].text), e)
                               /\ i <= j
             rest == [j \in 1..(Len(coll) - 1) |-> IF j < best THEN coll[j] ELSE coll[j + 1]]
         IN <<coll[best]>> \o Nearest(rest, e, n - 1)

\* A result list that leaves the metadata of the found documents out.
KnowledgeResultsNoMeta(found, e) ==
    [i \in 1..Len(found) |->
        [content |-> found[i].text, metadata |-> NoMeta,
         distance |-> Distance(Encode(found[i].text), e)]]

\* The knowledge_results list search_knowledge builds from the store's answer.
KnowledgeResults(found, e) ==
    [i \in 1..Len(found) |->
        [content |-> found[i].text, metadata |-> found[i].meta,
         distance |-> Distance(Encode(found[i].text), e)]]

\* search_knowledge without its `except Exception`: a failure propagates.
SearchKnowledgeNoCatch(avail, coll, text, k, embedOk, storeOk) ==
    IF ~avail THEN [raised |-> FALSE, out |-> <<>>]
    ELSE IF ~(embedOk /\ storeOk) THEN [raised |-> TRUE, out |-> <<>>]
    ELSE [raised |-> FALSE,
          out |-> KnowledgeResults(Nearest(coll, Encode(text), k), Encode(text))]

\* search_knowledge(query, n_results): [] without a vector database, [] when
\* encode or collection.query raises, else the store's answer.
SearchKnowledgeResult(avail, coll, text, k, embedOk, storeOk) ==
    IF ~avail THEN [raised |-> FALSE, out |-> <<>>]
    ELSE IF ~(embedOk /\ storeOk) THEN [raised |-> FALSE, out |-> <<>>]
    ELSE [raised |-> FALSE,
          out |-> KnowledgeResults(Nearest(coll, Encode(text), k), Encode(text))]

\* ------------------------------------------------------------ order status
\* Timestamps are clock ticks.  (a - b).days of two datetimes: whole days,
\* rounded down (a negative difference of less than a day is -1 days).
Days(a, b) == (a - b) \div UnitsPerDay

\* t + timedelta(days=n)
PlusDays(t, n) == t + n * UnitsPerDay

\* strftime('%Y-%m-%d') and strftime("%B %d, %Y"): the calendar day of t.
DateOf(t) == t \div UnitsPerDay

\* strftime('%m%d'): month and day of t, without the year.
MonthDay(t) == DateOf(t) % DaysPerYear

\* str.replace(c, '') on a token sequence.
Remove(s, c) == SelectSeq(s, LAMBDA x : x # c)

\* str.strip() on a token sequence.
RECURSIVE Strip(_)
Strip(s) ==
    IF s = <<>> THEN s
    ELSE IF Head(s) = " " THEN Strip(Tail(s))
    ELSE IF s[Len(s)] = " " THEN Strip(SubSeq(s, 1, Len(s) - 1))
    ELSE s

\* Line 1605: the order id as the request wrote it, "#" and outer blanks
\* removed; it is not converted to a number.
CleanOrderId(order_id) == Strip(Remove(order_id, "#"))

\* The number MySQL reads from a string of digits that is compared with an
\* integer column: leading zeros do not count.
RECURSIVE SqlNumber(_)
SqlNumber(s) ==
    IF Len(s) > 1 /\ Head(s) = "0" THEN SqlNumber(Tail(s)) ELSE s

\* WHERE o.order_id = %s (line 1615) with the cleaned id as a string
\* parameter: the row whose id has the same numeric value.
OrderFound(clean_order_id, order) ==
    clean_order_id # <<>> /\ SqlNumber(clean_order_id) = order.order_id

\* The tracking number of the result: the stored one, or "TRK", the cleaned
\* id of the request and the month and day of the order (lines 1661-1668).
TrackingById(clean_order_id, order) ==
    IF order.tracking_number # <<>>
    THEN [tracking_number |-> order.tracking_number, tracking_suffix |-> <<>>,
          has_tracking |-> TRUE]
    ELSE [tracking_number |-> <<"TRK">> \o clean_order_id,
          tracking_suffix |-> <<MonthDay(order.order_date[1])>>,
          has_tracking |-> FALSE]

\* Lines 1775-1777: the stored tracking number, always marked as tracked.
TrackingByTracking(order) ==
    [tracking_number |-> order.tracking_number, tracking_suffix |-> <<>>,
     has_tracking |-> TRUE]

NoStatus == [tracking_status |-> "", message |-> "", message_date |-> <<>>,
             estimated_delivery |-> <<>>, estimated_shipping |-> <<>>,
             keys |-> {}]

\* The order-age branch with `< 3` for `<= 3`: day 3 counts as shipped.
StatusByTrackingEarlyShipped(order_date, shipping_date, now) ==
    IF shipping_date = <<>> /\ Days(now, order_date[1]) = 3
    THEN [NoStatus EXCEPT !.tracking_status = "Shipped",
                          !.message = "has been shipped",
                          !.estimated_delivery = <<DateOf(PlusDays(order_date[1], 7))>>,
                          !.keys = {"tracking_status", "tracking_message",
                                    "estimated_delivery"}]
    ELSE IF shipping_date = <<>> /\ Days(now, order_date[1]) = 0
    THEN [NoStatus EXCEPT !.tracking_status = "Order Confirmed",
                          !.message = "has been confirmed",
                          !.keys = {"tracking_status", "tracking_message"}]
    ELSE IF shipping_date = <<>> /\ Days(now, order_date[1]) = 1
    THEN [NoStatus EXCEPT !.tracking_status = "Processing",
                          !.message = "is being processed",
                          !.keys = {"tracking_status", "tracking_message"}]
    ELSE IF shipping_date = <<>> /\ Days(now, order_date[1]) <= 2
    THEN [NoStatus EXCEPT !.tracking_status = "Ready to Ship",
                          !.message = "is packed and ready to ship",
                          !.estimated_shipping = <<DateOf(PlusDays(order_date[1], 3))>>,
                          !.keys = {"tracking_status", "tracking_message",
                                    "estimated_shipping"}]
    ELSE [NoStatus EXCEPT !.tracking_status = "Shipped",
                          !.message = IF shipping_date = <<>> THEN "has been shipped"
                                      ELSE "shipped on",
                          !.estimated_delivery =
                              IF shipping_date = <<>>
                              THEN <<DateOf(PlusDays(order_date[1], 7))>> ELSE <<>>,
                          !.keys = {"tracking_status", "tracking_message"}]

\* get_order_by_tracking_number, lines 1779-1811: its own copy of the rules.
StatusByTracking(order_date, shipping_date, now) ==
    IF shipping_date # <<>>
    THEN LET days_since_shipping == Days(now, shipping_date[1])
         IN IF days_since_shipping >= 5
            THEN [NoStatus EXCEPT !.tracking_status = "Delivered",
                                  !.message = "was delivered on",
                                  !.message_date = <<DateOf(PlusDays(shipping_date[1], 5))>>,
                                  !.keys = {"tracking_status", "tracking_message"}]
            ELSE IF days_since_shipping >= 1
            THEN [NoStatus EXCEPT !.tracking_status = "In Transit",
                                  !.message = "is on its way",
                                  !.message_date = <<DateOf(PlusDays(shipping_date[1], 5))>>,
                                  !.estimated_delivery = <<DateOf(PlusDays(shipping_date[1], 5))>>,
                                  !.keys = {"tracking_status", "tracking_message",
                                            "estimated_delivery"}]
            ELSE [NoStatus EXCEPT !.tracking_status = "Shipped",
                                  !.message = "shipped on",
                                  !.message_date = <<DateOf(shipping_date[1])>>,
                                  !.keys = {"tracking_status", "tracking_message"}]
    ELSE LET days_since_order == Days(now, order_date[1])
         IN IF days_since_order = 0
            THEN [NoStatus EXCEPT !.tracking_status = "Order Confirmed",
                                  !.message = "has been confirmed",
                                  !.keys = {"tracking_status", "tracking_message"}]
            ELSE IF days_since_order = 1
            THEN [NoStatus EXCEPT !.tracking_status = "Processing",
                                  !.message = "is being processed",
                                  !.keys = {"tracking_status", "tracking_message"}]
            ELSE IF days_since_order <= 3
            THEN [NoStatus EXCEPT !.tracking_status = "Ready to Ship",
                                  !.message = "is packed and ready to ship",
                                  !.estimated_shipping = <<DateOf(PlusDays(order_date[1], 3))>>,
                                  !.keys = {"tracking_status", "tracking_message",
                                            "estimated_shipping"}]
            ELSE [NoStatus EXCEPT !.tracking_status = "Shipped",
                                  !.message = "has been shipped",
                                  !.estimated_delivery = <<DateOf(PlusDays(order_date[1], 7))>>,
                                  !.keys = {"tracking_status", "tracking_message",
                                            "estimated_delivery"}]

\* The status from the age of the order alone, the shipping date unread.
StatusByIdOrderAgeOnly(order_date, shipping_date, now) ==
    StatusByTracking(order_date, <<>>, now)

\* The shipping branch without its first test: a shipped order stays in
\* transit.
StatusByIdNeverDelivered(order_date, shipping_date, now) ==
    IF shipping_date # <<>> /\ Days(now, shipping_date[1]) >= 5
    THEN StatusByTracking(order_date, shipping_date, PlusDays(shipping_date[1], 4))
    ELSE StatusByTracking(order_date, shipping_date, now)

\* The shipping branch with `> 5` for `>= 5`: day 5 is still in transit.
StatusByIdLateDelivery(order_date, shipping_date, now) ==
    IF shipping_date # <<>> /\ Days(now, shipping_date[1]) = 5
    THEN StatusByTracking(order_date, shipping_date, PlusDays(shipping_date[1], 4))
    ELSE StatusByTracking(order_date, shipping_date, now)

\* get_order_by_id, lines 1670-1702: the status from the shipping date or,
\* without one, from the age of the order.
StatusById(order_date, shipping_date, now) ==
    IF shipping_date # <<>>
    THEN LET days_since_shipping == Days(now, shipping_date[1])
         IN IF days_since_shipping >= 5
            THEN [NoStatus EXCEPT !.tracking_status = "Delivered",
                                  !.message = "was delivered on",
                                  !.message_date = <<DateOf(PlusDays(shipping_date[1], 5))>>,
                                  !.keys = {"tracking_status", "tracking_message"}]
            ELSE IF days_since_shipping >= 1
            THEN [NoStatus EXCEPT !.tracking_status = "In Transit",
                                  !.message = "is on its way",
                                  !.message_date = <<DateOf(PlusDays(shipping_date[1], 5))>>,
                                  !.estimated_delivery = <<DateOf(PlusDays(shipping_date[1], 5))>>,
                                  !.keys = {"tracking_status", "tracking_message",
                                            "estimated_delivery"}]
            ELSE [NoStatus EXCEPT !.tracking_status = "Shipped",
                                  !.message = "shipped on",
                                  !.message_date = <<DateOf(shipping_date[1])>>,
                                  !.keys = {"tracking_status", "tracking_message"}]
    ELSE LET days_since_order == Days(now, order_date[1])
         IN IF days_since_order = 0
            THEN [NoStatus EXCEPT !.tracking_status = "Order Confirmed",
                                  !.message = "has been confirmed",
                                  !.keys = {"tracking_status", "tracking_message"}]
            ELSE IF days_since_order = 1
            THEN [NoStatus EXCEPT !.tracking_status = "Processing",
                                  !.message = "is being processed",
                                  !.keys = {"tracking_status", "tracking_message"}]
            ELSE IF days_since_order <= 3
            THEN [NoStatus EXCEPT !.tracking_status = "Ready to Ship",
                                  !.message = "is packed and ready to ship",
                                  !.estimated_shipping = <<DateOf(PlusDays(order_date[1], 3))>>,
                                  !.keys = {"tracking_status", "tracking_message",
                                            "estimated_shipping"}]
            ELSE [NoStatus EXCEPT !.tracking_status = "Shipped",
                                  !.message = "has been shipped",
                                  !.estimated_delivery = <<DateOf(PlusDays(order_date[1], 7))>>,
                                  !.keys = {"tracking_status", "tracking_message",
                                            "estimated_delivery"}]

\* --------------------------------------------------------- product matcher
\* Texts are sequences of tokens.  A token is a separator (" ", "-") or a
\* run of letters cut where a keyword of the program starts or ends inside
\* a word of the model's texts ("laptop" is <<"lap", "top">>), so that a
\* keyword is a Python substring of a text exactly when its tokens are a
\* contiguous run of the text's tokens.

\* The score 1.0.  Scores are whole multiples of 1/Scale; Scale is a
\* multiple of every keyword count (1..8), of the 27 visual features and
\* of 10.
Scale == 7560

Max(a, b) == IF a > b THEN a ELSE b

\* `sub in s` for strings.
Contains(s, sub) ==
    \E i \in 0..(Len(s) - Len(sub)) : SubSeq(s, i + 1, i + Len(sub)) = sub

\* A sequence of one-token texts from a sequence of tokens.
Texts(tokens) == [i \in 1..Len(tokens) |-> <<tokens[i]>>]

\* How many entries of a sequence satisfy a test.
CountIf(s, Test(_)) == Cardinality({i \in 1..Len(s) : Test(s[i])})

\* f"{value}": None is written "None".
FString(value) == IF value = <<>> THEN <<"None">> ELSE value[1]

\* self.category_mapping, in insertion order.
CategoryMapping ==
    << [category |-> <<"shirt">>,
        keywords |-> Texts(<<"shirt", "top", "blouse">>) \o << <<"t", "-", "shirt">> >>
                     \o Texts(<<"polo", "tank", "vest">>)],
       [category |-> <<"bag">>,
        keywords |-> Texts(<<"bag", "purse">>)
                     \o << <<"hand", "bag">>, <<"back", "pack">> >>
                     \o Texts(<<"tote", "clutch">>)],
       [category |-> <<"watch">>,
        keywords |-> Texts(<<"watch", "timepiece">>) \o << <<"smart", "watch">> >>],
       [category |-> <<"shoes">>,
        keywords |-> Texts(<<"shoes", "sneakers", "boots", "sandals", "heels">>)],
       [category |-> <<"jeans">>,
        keywords |-> Texts(<<"jeans", "pants", "trouser", "denim">>)],
       [category |-> <<"dress">>,
        keywords |-> Texts(<<"dress", "gown", "frock">>)],
       [category |-> <<"jacket">>,
        keywords |-> Texts(<<"jacket", "coat", "blazer", "hoodie">>)],
       [category |-> <<"accessories">>,
        keywords |-> Texts(<<"accessories", "jewelry", "necklace", "bracelet">>)] >>

\* The generic apparel words of the fallback (line 2480).
GenericApparelWords == Texts(<<"clothing", "wear", "garment", "outfit">>)

\* The score of the i-th category: how many of its keywords occur in the
\* lowered description (lines 2466-2469).
CategoryScore(description_lower, i) ==
    CountIf(CategoryMapping[i].keywords, LAMBDA keyword : Contains(description_lower, keyword))

\* max(category_scores, key=category_scores.get) with the last of the
\* largest scores for the first.
RECURSIVE MaxKeyLast(_, _, _)
MaxKeyLast(description_lower, i, best) ==
    IF i > Len(CategoryMapping) THEN best
    ELSE IF CategoryScore(description_lower, i) > 0
            /\ (best = 0 \/ CategoryScore(description_lower, i)
                                >= CategoryScore(description_lower, best))
    THEN MaxKeyLast(description_lower, i + 1, i)
    ELSE MaxKeyLast(description_lower, i + 1, best)

\* max(category_scores, key=category_scores.get), lines 2464-2475: the
\* categories with a positive score are visited in insertion order and a
\* later one replaces the best so far only with a larger score.  0 stands
\* for an empty dict.
RECURSIVE MaxKey(_, _, _)
MaxKey(description_lower, i, best) ==
    IF i > Len(CategoryMapping) THEN best
    ELSE IF CategoryScore(description_lower, i) > 0
            /\ (best = 0 \/ CategoryScore(description_lower, i)
                                > CategoryScore(description_lower, best))
    THEN MaxKey(description_lower, i + 1, i)
    ELSE MaxKey(description_lower, i + 1, best)

\* detect_product_category(description), lines 2459-2483.
DetectProductCategory(description) ==
    LET description_lower == Lower(description)
        best == MaxKey(description_lower, 1, 0)
    IN IF best # 0 THEN CategoryMapping[best].category
       ELSE IF \E w \in 1..Len(GenericApparelWords) :
                    Contains(description_lower, GenericApparelWords[w])
       THEN <<"clothing">>
       ELSE <<"general">>

\* fashion_keywords (lines 2490-2526) without its repeated entries, in the
\* order of the listing.  The literal is a set: the order in which a loop
\* visits it is IterationOrder below.
FashionKeywords ==
    << <<"shirt">>, <<"dress">>, <<"pants">>, <<"jeans">>, <<"jacket">>,
       <<"coat">>, <<"sweater">>, <<"hoodie">>, <<"skirt">>, <<"shorts">>,
       <<"top">>, <<"blouse">>, <<"cardigan">>, <<"blazer">>, <<"vest">>,
       <<"t", "shirt">>, <<"polo">>, <<"tank">>, <<"crop">>, <<"maxi">>,
       <<"mini">>, <<"midi">>, <<"formal">>, <<"casual">>, <<"uniform">>,
       <<"suit">>, <<"trouser">>, <<"leggings">>, <<"jogger">>,
       <<"swea", "t", "shirt">>, <<"red">>, <<"blue">>, <<"green">>, <<"yellow">>,
       <<"black">>, <<"white">>, <<"gray">>, <<"grey">>, <<"brown">>,
       <<"pink">>, <<"purple">>, <<"orange">>, <<"navy">>, <<"beige">>,
       <<"khaki">>, <<"denim">>, <<"cream">>, <<"maroon">>, <<"burgundy">>,
       <<"teal">>, <<"turquoise">>, <<"lime">>, <<"olive">>, <<"gold">>,
       <<"silver">>, <<"cotton">>, <<"wool">>, <<"silk">>, <<"linen">>,
       <<"polyester">>, <<"leather">>, <<"velvet">>, <<"satin">>,
       <<"chiffon">>, <<"jersey">>, <<"canvas">>, <<"corduroy">>,
       <<"fleece">>, <<"striped">>, <<"floral">>, <<"solid">>, <<"plaid">>,
       <<"checkered">>, <<"polka">>, <<"geometric">>, <<"printed">>,
       <<"embroidered">>, <<"lace">>, <<"paisley">>, <<"animal">>,
       <<"abstract">>, <<"long">>, <<"short">>, <<"sleeve">>,
       <<"sleeveless">>, <<"collar">>, <<"button">>, <<"zip">>, <<"zip", "per">>,
       <<"pocket">>, <<"hood">>, <<"belt">>, <<"tie">>, <<"bow">>,
       <<"ruffle">>, <<"pleated">>, <<"fitted">>, <<"loose">>, <<"tight">>,
       <<"slim">>, <<"regular">>, <<"oversized">>, <<"men">>, <<"wo", "men">>,
       <<"unisex">>, <<"boy">>, <<"girl">>, <<"adult">>, <<"kids">>,
       <<"child">>, <<"sport">>, <<"athletic">>, <<"business">>, <<"party">>,
       <<"wedding">>, <<"hat">>, <<"cap">>, <<"scarf">>, <<"gloves">>,
       <<"bag">>, <<"shoes">>, <<"sneakers">>, <<"boots">>, <<"sandals">>,
       <<"heels">>, <<"flats">>, <<"watch">>, <<"jewelry">>, <<"necklace">>,
       <<"vintage">>, <<"modern">>, <<"classic">>, <<"trendy">>,
       <<"bohemian">>, <<"punk">>, <<"gothic">>, <<"preppy">>,
       <<"streetwear">>, <<"minimalist">>, <<"elegant">>, <<"chic">> >>

Reverse(s) == [i \in 1..Len(s) |-> s[Len(s) + 1 - i]]

Rotate(s, n) == [i \in 1..Len(s) |-> s[((i - 1 + n) % Len(s)) + 1]]

\* The order in which `for keyword in fashion_keywords` (line 2532) visits
\* the set.  It follows the hashes of the strings, which are randomised
\* per process (one seed per process); the seeds of the model give the
\* listing order, its reverse and their rotations.
IterationOrder(seed) ==
    IF seed % 2 = 0 THEN Rotate(FashionKeywords, seed \div 2)
    ELSE Reverse(Rotate(FashionKeywords, seed \div 2))

\* The substrings that make a word a descriptor (line 2547).
DescriptorParts == Texts(<<"wear", "cloth", "dress", "style">>)

Separators == {" ", "-"}

\* re.findall(r'\b\w+\b', text): the maximal runs of word tokens.
RECURSIVE RegexWords(_, _)
RegexWords(text, word) ==
    IF text = <<>> THEN (IF word = <<>> THEN <<>> ELSE <<word>>)
    ELSE IF Head(text) \in Separators
    THEN (IF word = <<>> THEN <<>> ELSE <<word>>) \o RegexWords(Tail(text), <<>>)
    ELSE RegexWords(Tail(text), Append(word, Head(text)))

InSeq(x, s) == \E i \in 1..Len(s) : s[i] = x

\* The loop of lines 2539-2541 without `word not in found_keywords`.
RECURSIVE AppendKeywordWordsRepeating(_, _)
AppendKeywordWordsRepeating(found_keywords, words) ==
    IF words = <<>> THEN found_keywords
    ELSE AppendKeywordWordsRepeating(
             IF InSeq(Head(words), FashionKeywords)
             THEN Append(found_keywords, Head(words)) ELSE found_keywords,
             Tail(words))

\* The loop of lines 2539-2541: the words that are fashion keywords and
\* not yet found.
RECURSIVE AppendKeywordWords(_, _)
AppendKeywordWords(found_keywords, words) ==
    IF words = <<>> THEN found_keywords
    ELSE AppendKeywordWords(
             IF InSeq(Head(words), FashionKeywords) /\ ~InSeq(Head(words), found_keywords)
             THEN Append(found_keywords, Head(words)) ELSE found_keywords,
             Tail(words))

\* The loop of lines 2544-2548.  len(word) > 3 holds of every word that
\* contains a descriptor part: the shortest part has four letters.
RECURSIVE AppendDescriptors(_, _)
AppendDescriptors(found_keywords, words) ==
    IF words = <<>> THEN found_keywords
    ELSE AppendDescriptors(
             IF /\ ~InSeq(Head(words), found_keywords)
                /\ \E p \in 1..Len(DescriptorParts) : Contains(Head(words), DescriptorParts[p])
             THEN Append(found_keywords, Head(words)) ELSE found_keywords,
             Tail(words))

\* extract_keywords(description), lines 2487-2550, in a process with the
\* given hash seed.  The first loop runs over the set in its iteration
\* order.
ExtractKeywords(description, seed) ==
    LET description_lower == Lower(description)
        direct == SelectSeq(IterationOrder(seed),
                            LAMBDA keyword : Contains(description_lower, keyword))
        words == RegexWords(description_lower, <<>>)
        found_keywords == AppendDescriptors(AppendKeywordWords(direct, words), words)
    IN SubSeq(found_keywords, 1, Min(8, Len(found_keywords)))

\* f"{product_name} {product_discription} {product_type}"
ProductText(product) ==
    FString(product.product_name) \o <<" ">> \o FString(product.product_discription)
    \o <<" ">> \o FString(product.product_type)

\* The semantic signal without max(0.0, ...).
CalculateSemanticSimilarityUnclamped(description, product, embed) ==
    IF Strip(ProductText(product)) = <<>> THEN 0
    ELSE IF ~embed.ok THEN 0
    ELSE embed.cosine

\* calculate_semantic_similarity, lines 2574-2597.  embed is what the
\* embedder and cosine_similarity do for this description and product: they
\* raise, or give a cosine in [-1, 1].
CalculateSemanticSimilarity(description, product, embed) ==
    IF Strip(ProductText(product)) = <<>> THEN 0
    ELSE IF ~embed.ok THEN 0
    ELSE Max(0, embed.cosine)

\* calculate_keyword_similarity, lines 2599-2617.  A description of None
\* raises in extract_keywords, which the except turns into 0.0.
CalculateKeywordSimilarity(description, product, seed) ==
    IF description = <<>> THEN 0
    ELSE LET keywords == ExtractKeywords(description[1], seed)
             product_text == Lower(ProductText(product))
             matched_keywords == CountIf(keywords, LAMBDA keyword : Contains(product_text, Lower(keyword)))
         IN IF keywords = <<>> THEN 0
            ELSE (matched_keywords * Scale) \div Len(keywords)

\* category_synonyms, lines 2633-2641, in insertion order.
CategorySynonyms ==
    << [category |-> <<"shirt">>,
        synonyms |-> Texts(<<"top", "blouse">>)
                     \o << <<"t", "shirt">> >> \o Texts(<<"polo">>)
                     \o << <<"dress", " ", "shirt">> >>],
       [category |-> <<"dress">>,
        synonyms |-> Texts(<<"gown", "frock", "maxi", "mini", "midi">>)],
       [category |-> <<"pants">>,
        synonyms |-> Texts(<<"trousers", "jeans", "leggings", "slacks">>)],
       [category |-> <<"jacket">>,
        synonyms |-> Texts(<<"coat", "blazer", "cardigan", "hoodie">>)],
       [category |-> <<"shoes">>,
        synonyms |-> << <<"foot", "wear">> >>
                     \o Texts(<<"sneakers", "boots", "sandals", "heels">>)],
       [category |-> <<"bag">>,
        synonyms |-> Texts(<<"purse">>)
                     \o << <<"hand", "bag">>, <<"back", "pack">> >> \o Texts(<<"tote">>)],
       [category |-> <<"hat">>,
        synonyms |-> Texts(<<"cap", "beanie", "fedora">>)] >>

\* calculate_category_similarity, lines 2619-2655, in units of 1/Scale.  A
\* product_type or a description of None raises on .lower(), which the
\* except turns into 0.0.
CalculateCategorySimilarity(description, product) ==
    IF product.product_type = <<>> \/ description = <<>> THEN 0
    ELSE LET product_type == Lower(product.product_type[1])
             description_lower == Lower(description[1])
         IN IF product_type = <<>> THEN 0
            ELSE IF Contains(description_lower, product_type) THEN Scale
            ELSE IF \E c \in 1..Len(CategorySynonyms) :
                       LET category == CategorySynonyms[c].category
                           synonyms == CategorySynonyms[c].synonyms
                       IN IF product_type = category
                          THEN \E s \in 1..Len(synonyms) :
                                   Contains(description_lower, synonyms[s])
                          ELSE /\ InSeq(product_type, synonyms)
                               /\ Contains(description_lower, category)
            THEN (8 * Scale) \div 10
            ELSE 0

\* colors, patterns and styles of lines 2664-2680.
VisualColors ==
    Texts(<<"red", "blue", "green", "yellow", "black", "white", "gray", "brown",
            "pink", "purple", "orange", "navy", "beige", "khaki">>)
VisualPatterns ==
    Texts(<<"striped", "floral", "solid", "plaid", "checkered", "polka", "printed">>)
VisualStyles ==
    Texts(<<"casual", "formal", "vintage", "modern", "elegant", "sporty">>)

\* calculate_text_visual_similarity, lines 2657-2693.
CalculateTextVisualSimilarity(description, product) ==
    IF description = <<>> THEN 0
    ELSE LET description_lower == Lower(description[1])
             product_text == Lower(FString(product.product_name) \o <<" ">>
                                   \o FString(product.product_discription))
             Both(feature) == Contains(description_lower, feature)
                              /\ Contains(product_text, feature)
             total_visual_features ==
                 Len(VisualColors) + Len(VisualPatterns) + Len(VisualStyles)
             total_matches == CountIf(VisualColors, Both) + CountIf(VisualPatterns, Both)
                              + CountIf(VisualStyles, Both)
         IN (total_matches * Scale) \div total_visual_features

\* The four signals of calculate_advanced_similarity.
Signals(description, product, embed, seed) ==
    [semantic |-> CalculateSemanticSimilarity(description, product, embed),
     keyword |-> CalculateKeywordSimilarity(description, product, seed),
     category |-> CalculateCategorySimilarity(description, product),
     visual |-> CalculateTextVisualSimilarity(description, product)]

\* The weighted sum of lines 2554-2570, in units of 1/(10 * Scale).
WeightedSum(s) == 4 * s.semantic + 3 * s.keyword + 2 * s.category + s.visual

\* calculate_advanced_similarity, lines 2552-2572, in units of
\* 1/(10 * Scale): min(total_score, 1.0).
CalculateAdvancedSimilarity(description, product, embed, seed) ==
    Min(WeightedSum(Signals(description, product, embed, seed)), 10 * Scale)

\* ------------------------------------------------------------------- state
VARIABLES
    vectorDb,     \* kb.vector_db is a collection (TRUE) or None (FALSE)
    addPolicy,    \* what the store's add does with an id it already holds
    collection,   \* the documents of the "webstore_knowledge" collection
    catalog,      \* the rows of the product table
    rb,           \* per request thread: its build_knowledge_embeddings call
    rebuilds,     \* rebuild calls started so far
    updates,      \* catalog changes so far
    stable,       \* the collection when no rebuild was last running
    last,         \* the rebuild call that ended last, and how
    qres,         \* what search_knowledge returned, if it was the last step
    order,        \* the order row joined with its shipping row
    now,          \* datetime.now()
    ores,         \* what the last order lookup returned
    sreq,         \* the arguments of the signal computations
    sres,         \* what the last signal computation returned
    freq,         \* the arguments and collaborators of a product search
    fres,         \* what find_similar_products returned
    chat_conversations,  \* the rows of the table, per session in insertion order
    chat_sessions,       \* the rows of the table chat_sessions
    uniqueSession,       \* the schema has a unique key on chat_sessions.session_id
    message_cache,       \* chatbot.message_cache
    hc,                  \* the save_message_to_history call of each request thread
    saves,               \* save_message_to_history calls so far
    hres          \* what the last history call returned, if it was the last step

ovars == <<order, now, ores>>

mvars == <<sreq, sres, freq, fres>>

hvars == <<chat_conversations, chat_sessions, uniqueSession, message_cache, hc, saves, hres>>

kbvars == <<vectorDb, addPolicy, collection, catalog, rb, rebuilds, updates,
            stable, last, qres>>

NoContent == [products |-> <<>>, categories |-> <<>>]
IdleCall == [pc |-> "idle", docs |-> <<>>, i |-> 0, content |-> NoContent,
             deleted |-> FALSE]
NoQuery == [called |-> FALSE, text |-> <<>>, k |-> 0, raised |-> FALSE,
            failed |-> FALSE, out |-> <<>>, size |-> 0, partial |-> FALSE]

NoRun == [ended |-> FALSE, outcome |-> "", content |-> NoContent,
          deleted |-> FALSE, coll |-> <<>>]

Active(r) == {w \in DOMAIN r : r[w].pc # "idle"}

\* What the persistent client loads at start-up: nothing, or the documents
\* an earlier run of the server stored for the catalog of that time.
PersistedCollections ==
    {<<>>, RenderAll(ExtractDatabaseContent(<<Row(ProductIds[1], CatSpace, <<"10">>)>>))}

InitKB ==
    /\ vectorDb \in BOOLEAN
    /\ addPolicy \in {"ignore", "raise"}
    /\ collection \in PersistedCollections
    /\ catalog \in Catalogs
    /\ rb = [w \in Workers |-> IdleCall]
    /\ rebuilds = 0
    /\ updates = 0
    /\ stable = collection
    /\ last = NoRun
    /\ qres = NoQuery

\* Bookkeeping of a call that ends: rb2 and coll2 are the new values.
Ended(w, rb2, coll2, outcome) ==
    last' = [ended |-> TRUE, outcome |-> outcome, content |-> rb2[w].content,
             deleted |-> rb2[w].deleted, coll |-> coll2]

Step(rb2, coll2) ==
    /\ rb' = rb2
    /\ collection' = coll2
    /\ stable' = IF Active(rb2) = {} THEN coll2 ELSE stable

\* build_knowledge_embeddings, up to and including the clear step: returns
\* at once without a vector database; collection.delete(where={}) either
\* clears the collection or raises, which `except: pass` swallows.
BeginRebuild(w) ==
    /\ rb[w].pc = "idle"
    /\ rebuilds < MaxRebuilds
    /\ rebuilds' = rebuilds + 1
    /\ IF ~vectorDb
       THEN /\ Step([rb EXCEPT ![w] = IdleCall], collection)
            /\ Ended(w, [rb EXCEPT ![w] = IdleCall], collection, "unavailable")
       ELSE \E deleteOk \in BOOLEAN :
               /\ Step([rb EXCEPT ![w] = [IdleCall EXCEPT !.pc = "render",
                                                          !.deleted = deleteOk]],
                       IF deleteOk THEN <<>> ELSE collection)
               /\ UNCHANGED last
    /\ qres' = NoQuery
    /\ UNCHANGED <<ovars, mvars, hvars>>
    /\ UNCHANGED <<vectorDb, addPolicy, catalog, updates>>

\* The four embedding loops: every text is encoded, the catalog is read
\* once; an encode failure or float(None) ends the call with an exception.
Render(w) ==
    /\ rb[w].pc = "render"
    /\ \E embedOk \in BOOLEAN :
          LET content == ExtractDatabaseContent(catalog)
              raised == [rb EXCEPT ![w] = [IdleCall EXCEPT !.content = content,
                                                           !.deleted = rb[w].deleted]]
          IN IF ~embedOk
             THEN /\ Step([rb EXCEPT ![w] = [IdleCall EXCEPT !.deleted = rb[w].deleted]],
                          collection)
                  /\ Ended(w, [rb EXCEPT ![w] = [IdleCall EXCEPT !.deleted = rb[w].deleted]],
                           collection, "embed_fail")
             ELSE IF RenderRaises(content)
             THEN /\ Step(raised, collection)
                  /\ Ended(w, raised, collection, "malformed")
             ELSE /\ Step([rb EXCEPT ![w] = [pc |-> "add", docs |-> RenderAll(content),
                                             i |-> 0, content |-> content,
                                             deleted |-> rb[w].deleted]],
                          collection)
                  /\ UNCHANGED last
    /\ qres' = NoQuery
    /\ UNCHANGED <<ovars, mvars, hvars>>
    /\ UNCHANGED <<vectorDb, addPolicy, catalog, rebuilds, updates>>

\* One pass of the batch loop: collection.add of documents[i:i+batch_size].
AddBatch(w) ==
    /\ rb[w].pc = "add"
    /\ \E storeOk \in BOOLEAN :
          LET docs == rb[w].docs
              batch == SubSeq(docs, rb[w].i + 1, Min(rb[w].i + BatchSize, Len(docs)))
              err == IF storeOk THEN AddError(collection, batch, addPolicy)
                     ELSE "store_fail"
              back == [rb EXCEPT ![w] = [IdleCall EXCEPT !.content = rb[w].content,
                                                         !.deleted = rb[w].deleted]]
              coll2 == AppendNew(collection, batch)
          IN IF err # ""
             THEN /\ Step(back, collection)
                  /\ Ended(w, back, collection, err)
             ELSE IF rb[w].i + BatchSize >= Len(docs)
             THEN /\ Step(back, coll2)
                  /\ Ended(w, back, coll2, "ok")
             ELSE /\ Step([rb EXCEPT ![w].i = rb[w].i + BatchSize], coll2)
                  /\ UNCHANGED last
    /\ qres' = NoQuery
    /\ UNCHANGED <<ovars, mvars, hvars>>
    /\ UNCHANGED <<vectorDb, addPolicy, catalog, rebuilds, updates>>

\* The store's rows change (the catalog is owned by the web shop).
UpdateCatalog ==
    /\ updates < MaxUpdates
    /\ updates' = updates + 1
    /\ \E c \in Catalogs \ {catalog} : catalog' = c
    /\ qres' = NoQuery
    /\ UNCHANGED <<vectorDb, addPolicy, collection, rb, rebuilds, stable, last>>
    /\ UNCHANGED <<ovars, mvars, hvars>>

\* The texts a caller asks about: the text of a stored document or another.
QueryTexts == {collection[i].text : i \in 1..Min(1, Len(collection))}
              \cup {<<"shop", "Policy:">>}

\* A request thread calls search_knowledge; the store is read in one step.
\* qres holds the answer until the next step of any thread, so a call is
\* taken from a state that holds none.
SearchKnowledge ==
    /\ ~qres.called
    /\ \E text \in QueryTexts, k \in 1..MaxK, embedOk \in BOOLEAN, storeOk \in BOOLEAN :
          LET r == SearchKnowledgeResult(vectorDb, collection, text, k, embedOk, storeOk)
              answered == vectorDb /\ embedOk /\ storeOk
          IN qres' = [called |-> TRUE, text |-> text, k |-> k, raised |-> r.raised,
                      failed |-> ~(embedOk /\ storeOk),
                      out |-> r.out,
                      size |-> Len(collection),
                      partial |-> /\ answered
                                  /\ Active(rb) # {}
                                  /\ collection # stable
                                  /\ \A w \in Active(rb) :
                                        ~(rb[w].pc = "add"
                                          /\ DocSet(collection) = DocSet(rb[w].docs))]
    /\ UNCHANGED <<vectorDb, addPolicy, collection, catalog, rb, rebuilds, updates,
                   stable, last>>
    /\ UNCHANGED <<ovars, mvars, hvars>>

\* ------------------------------------------------------------ order lookups
Times == 0..MaxTime

NoLookup == [via |-> "none", at |-> 0, status |-> NoStatus,
             tracking |-> [tracking_number |-> <<>>, tracking_suffix |-> <<>>,
                           has_tracking |-> FALSE]]

\* The spellings of an order id a request may carry (the digits the intent
\* analysis took from the message, or the id as the language model gave it).
OrderIdRequests == {<<"7">>, <<"#", "7">>, <<" ", "7", " ">>, <<"0", "7">>, <<"8">>}

Orders == [order_id : {<<"7">>},
           order_date : {<<t>> : t \in Times},
           shipping_date : {<<>>} \cup {<<t>> : t \in Times},
           tracking_number : {<<>>, <<"TN7">>}]

InitOrder ==
    /\ order \in Orders
    /\ now = 0
    /\ ores = NoLookup

\* get_order_by_id(order_id): None when no row is found, else the row with
\* the status fields set when it has an order date.
GetOrderById ==
    /\ \E order_id \in OrderIdRequests :
          LET clean_order_id == CleanOrderId(order_id)
          IN ores' = IF ~OrderFound(clean_order_id, order) THEN NoLookup
                     ELSE [via |-> "id", at |-> now,
                           status |-> IF order.order_date # <<>>
                                      THEN StatusById(order.order_date,
                                                      order.shipping_date, now)
                                      ELSE NoStatus,
                           tracking |-> IF order.order_date # <<>>
                                        THEN TrackingById(clean_order_id, order)
                                        ELSE NoLookup.tracking]
    /\ UNCHANGED <<order, now>>
    /\ UNCHANGED <<kbvars, mvars, hvars>>

\* get_order_by_tracking_number: the inner join finds the order only by a
\* stored tracking number.
GetOrderByTrackingNumber ==
    /\ order.tracking_number # <<>>
    /\ ores' = [via |-> "tracking", at |-> now,
                status |-> IF order.order_date # <<>>
                           THEN StatusByTracking(order.order_date, order.shipping_date, now)
                           ELSE NoStatus,
                tracking |-> IF order.order_date # <<>> THEN TrackingByTracking(order)
                             ELSE NoLookup.tracking]
    /\ UNCHANGED <<order, now>>
    /\ UNCHANGED <<kbvars, mvars, hvars>>

\* Time passes.
Tick ==
    /\ now < MaxTime
    /\ now' = now + 1
    /\ ores' = NoLookup
    /\ UNCHANGED order
    /\ UNCHANGED <<kbvars, mvars, hvars>>

\* ---------------------------------------------------------- matcher signals
\* The words of the descriptions (captions) the signals are computed for.
DescriptionWords ==
    { <<"Red">>, <<"t", "-", "shirt">>, <<"hand", "bag">>, <<"lap", "top">>,
      <<"foot", "wear">> }

\* ' '.join(words)
RECURSIVE JoinWords(_)
JoinWords(words) ==
    IF words = <<>> THEN <<>>
    ELSE IF Len(words) = 1 THEN words[1]
    ELSE words[1] \o <<" ">> \o JoinWords(Tail(words))

\* The descriptions of at most MaxWords words; the first is ''.
DescriptionTexts ==
    {JoinWords(words) : words \in UNION {[1..n -> DescriptionWords] : n \in 0..MaxWords}}

\* A caption with more than eight vocabulary terms: 'women Red cotton
\* sweatshirt zipper' has shirt, tshirt, sweatshirt, red, cotton, zip,
\* zipper, men and women.
LongDescriptions ==
    { <<"wo", "men", " ", "Red", " ", "cotton", " ", "swea", "t", "shirt", " ",
        "zip", "per">> }

\* A description as the caller passes it: None or a string.
Descriptions == {<<>>} \cup {<<d>> : d \in DescriptionTexts \cup LongDescriptions}

\* The hash seeds of the processes.
HashSeeds == 0..MaxSeed

\* Product rows as the cursor returns them: a NULL column is None.
SignalProducts ==
    [product_name : {<<>>, << <<>> >>, << <<"Red", " ", "Cotton", " ", "Shirt">> >>},
     product_discription : {<< <<>> >>},
     product_type : {<<>>, << <<>> >>, << <<"Shirt">> >>, << <<"top">> >>,
                     << <<"shoes">> >>, << <<"bag">> >>}]

\* What the embedder and cosine_similarity do: raise, or a cosine.
Embeds ==
    {[ok |-> FALSE, cosine |-> 0]}
    \cup {[ok |-> TRUE, cosine |-> c] : c \in {0 - (Scale \div 2), Scale \div 2, Scale}}

NoSignals == [semantic |-> 0, keyword |-> 0, category |-> 0, visual |-> 0]
NoScore == [op |-> "none", raised |-> FALSE, signals |-> NoSignals, composite |-> 0,
            category |-> <<>>, keywords |-> <<>>]

InitSignals ==
    /\ sreq \in [description : Descriptions, product : SignalProducts, embed : Embeds,
                 seed : HashSeeds]
    /\ sres = NoScore

\* calculate_advanced_similarity(description, product): every signal has its
\* own try/except, so the call returns.  A behaviour is one call on the
\* request of Init.
CalculateAdvancedSimilarityCall ==
    /\ sres = NoScore
    /\ sres' = [NoScore EXCEPT
                  !.op = "similarity",
                  !.signals = Signals(sreq.description, sreq.product, sreq.embed,
                                      sreq.seed),
                  !.composite = CalculateAdvancedSimilarity(sreq.description, sreq.product,
                                                            sreq.embed, sreq.seed)]
    /\ UNCHANGED <<sreq, freq, fres>>
    /\ UNCHANGED <<kbvars, ovars, hvars>>

\* detect_product_category(description): description.lower() raises on None.
DetectProductCategoryCall ==
    /\ sres = NoScore
    /\ sres' = IF sreq.description = <<>>
               THEN [NoScore EXCEPT !.op = "category", !.raised = TRUE]
               ELSE [NoScore EXCEPT !.op = "category",
                                    !.category = DetectProductCategory(sreq.description[1])]
    /\ UNCHANGED <<sreq, freq, fres>>
    /\ UNCHANGED <<kbvars, ovars, hvars>>

\* extract_keywords(description): description.lower() raises on None.
ExtractKeywordsCall ==
    /\ sres = NoScore
    /\ sres' = IF sreq.description = <<>>
               THEN [NoScore EXCEPT !.op = "keywords", !.raised = TRUE]
               ELSE [NoScore EXCEPT !.op = "keywords",
                                    !.keywords = ExtractKeywords(sreq.description[1],
                                                                 sreq.seed)]
    /\ UNCHANGED <<sreq, freq, fres>>
    /\ UNCHANGED <<kbvars, ovars, hvars>>

\* ------------------------------------------------------- find_similar_products
\* The product table, in product_id order.
TableRow(id, name, type, ranking) ==
    [product_id |-> id, product_name |-> <<name>>, product_discription |-> << <<>> >>,
     product_type |-> <<type>>, product_ranking |-> ranking]

ProductTable ==
    << TableRow(1, <<"Red", " ", "Cotton", " ", "Shirt">>, <<"Shirt">>, 2),
       TableRow(2, <<"hand", "bag">>, <<"bag">>, 1),
       TableRow(3, <<"blouse">>, <<"shirt">>, 3),
       TableRow(4, <<"shirt">>, <<"t", "-", "shirt">>, 1),
       TableRow(5, <<"top">>, <<"shirt">>, 2) >>

TableIds == 1..Len(ProductTable)

\* The rows of an id set, in product_id order.
RECURSIVE RowsOfIds(_, _)
RowsOfIds(ids, from) ==
    IF from > Len(ProductTable) THEN <<>>
    ELSE (IF from \in ids THEN <<ProductTable[from]>> ELSE <<>>) \o RowsOfIds(ids, from + 1)

\* all_products (lines 2329-2338): the products that have an image, in
\* product_id order; the LEFT JOIN gives a product with two inventory rows
\* twice.
CandidateLists ==
    {RowsOfIds(ids, 1) : ids \in SUBSET TableIds}
    \cup {LET rows == RowsOfIds(ids, 1) IN <<rows[1]>> \o rows :
              ids \in (SUBSET TableIds) \ {{}}}

\* 0.3 in hundredths (lines 2359 and 2365).
Threshold == 30

\* What calculate_visual_similarity holds for a product: nothing (no
\* features for its image), or a cosine in hundredths.
SimChoices == {<<>>, <<Threshold>>, <<Threshold + 1>>, <<90>>}

\* The descriptions of the searches: '', and one per kind of category.
FindDescriptions ==
    { <<>>, <<"Red", " ", "t", "-", "shirt">>, <<"hand", "bag">>, <<"foot", "wear">> }

\* The limit argument; the endpoint passes DefaultLimit.
DefaultLimit == 6
Limits == {2, 4, DefaultLimit}

\* What the collaborators of a search do: all work ("ok"), mysql_db is None
\* ("no_db"), a query of find_similar_products raises ("db_error"), no image
\* was uploaded ("no_upload"), get_product_images_from_db returns {}
\* ("no_images"), the features of the uploaded image cannot be extracted so
\* that calculate_visual_similarity returns {} ("sim_failure").  The last
\* two happen only with candidates: without them neither is called.
Envs == {"ok", "no_db", "db_error", "no_upload", "no_images", "sim_failure"}

\* similarities.get(pid, 0)
SimilarityOf(sims, pid) == IF sims[pid] = <<>> THEN 0 ELSE sims[pid][1]

\* list.sort(key=field, reverse=True): stable, largest first.
RECURSIVE SortDesc(_, _)
SortDesc(s, field) ==
    IF Len(s) <= 1 THEN s
    ELSE LET front == SortDesc(SubSeq(s, 1, Len(s) - 1), field)
             x == s[Len(s)]
             keep == Cardinality({i \in 1..Len(front) : front[i][field] >= x[field]})
         IN SubSeq(front, 1, keep) \o <<x>> \o SubSeq(front, keep + 1, Len(front))

\* s[:n]
Take(s, n) == SubSeq(s, 1, Min(n, Len(s)))

\* A product of the result with the keys the search adds.
Tagged(product, similarity, visual_match, match_reason) ==
    [product_id |-> product.product_id, product_type |-> product.product_type,
     product_ranking |-> product.product_ranking, similarity_score |-> similarity,
     visual_match |-> visual_match, match_reason |-> match_reason]

\* Line 2363: the category test on the lowered product_type.
CategoryMatch(detected_category, product) ==
    LET product_category == Lower(product.product_type[1])
    IN Contains(product_category, detected_category)
       \/ Contains(detected_category, product_category)

\* The product of a row as the loop tags it (lines 2355-2359).
TaggedRow(product, sims, match_reason) ==
    LET similarity == SimilarityOf(sims, product.product_id)
    IN Tagged(product, similarity, similarity > Threshold, match_reason)

\* The loop with `>=` for `>` in line 2365.
MatchedProductsInclusive(rows, sims) ==
    LET chosen == SelectSeq(rows, LAMBDA p : SimilarityOf(sims, p.product_id) >= Threshold)
    IN SortDesc([i \in 1..Len(chosen) |-> TaggedRow(chosen[i], sims, "visual")],
                "similarity_score")

\* matched_products of lines 2353-2373: the products more similar than
\* the threshold, most similar first.
MatchedProducts(rows, sims) ==
    LET chosen == SelectSeq(rows, LAMBDA p : SimilarityOf(sims, p.product_id) > Threshold)
    IN SortDesc([i \in 1..Len(chosen) |-> TaggedRow(chosen[i], sims, "visual")],
                "similarity_score")

\* The loop with `if` for `elif` in line 2368.
CategoryProductsNoElif(rows, sims, detected_category) ==
    LET chosen == SelectSeq(rows, LAMBDA p : CategoryMatch(detected_category, p))
    IN SortDesc([i \in 1..Len(chosen) |-> TaggedRow(chosen[i], sims, "category")],
                "product_ranking")

\* category_products of lines 2353-2374: the other products whose type
\* matches the detected category, best ranking first.
CategoryProducts(rows, sims, detected_category) ==
    LET chosen == SelectSeq(rows, LAMBDA p : /\ ~(SimilarityOf(sims, p.product_id) > Threshold)
                                             /\ CategoryMatch(detected_category, p))
    IN SortDesc([i \in 1..Len(chosen) |-> TaggedRow(chosen[i], sims, "category")],
                "product_ranking")

\* Lines 2377-2378 without the two [:3].
FinalProductsUncapped(matched_products, category_products, limit) ==
    Take(matched_products \o category_products, limit)

\* Lines 2377-2378: three of each group, cut at limit.
FinalProducts(matched_products, category_products, limit) ==
    Take(Take(matched_products, 3) \o Take(category_products, 3), limit)

\* Lines 2394-2431: the products of the detected category, or all of them
\* for "general", best ranking first, at most limit.
FallbackProducts(detected_category, limit) ==
    LET terms == IF \E c \in 1..Len(CategoryMapping) :
                        CategoryMapping[c].category = detected_category
                 THEN CategoryMapping[CHOOSE c \in 1..Len(CategoryMapping) :
                          CategoryMapping[c].category = detected_category].keywords
                 ELSE <<detected_category>>
        chosen == SelectSeq(ProductTable,
                            LAMBDA p : \/ detected_category = <<"general">>
                                       \/ InSeq(Lower(p.product_type[1]), terms))
        ranked == Take(SortDesc(chosen, "product_ranking"), limit)
    IN [i \in 1..Len(ranked) |-> Tagged(ranked[i], 0, FALSE, "fallback")]

NoFound == [called |-> FALSE, raised |-> FALSE, path |-> "none", out |-> <<>>,
            matched_products |-> <<>>, category_products |-> <<>>]

\* The try block of find_similar_products, lines 2320-2431; raised when a
\* query of its own raises.
FindSimilarProductsTry(description, rows, sims, limit, env) ==
    LET detected_category == DetectProductCategory(description)
        similarities == IF env = "sim_failure" THEN [pid \in DOMAIN sims |-> <<>>] ELSE sims
        matched_products == MatchedProducts(rows, similarities)
        category_products == CategoryProducts(rows, similarities, detected_category)
    IN IF env = "db_error"
       THEN [NoFound EXCEPT !.called = TRUE, !.raised = TRUE, !.path = "except"]
       ELSE IF env # "no_upload" /\ rows # <<>> /\ env # "no_images"
       THEN [NoFound EXCEPT !.called = TRUE, !.path = "image",
                            !.out = FinalProducts(matched_products, category_products,
                                                  limit),
                            !.matched_products = matched_products,
                            !.category_products = category_products]
       ELSE [NoFound EXCEPT !.called = TRUE, !.path = "fallback",
                            !.out = FallbackProducts(detected_category, limit)]

\* find_similar_products without its except clause.
FindSimilarProductsNoCatch(description, rows, sims, limit, env) ==
    IF env = "no_db" THEN [NoFound EXCEPT !.called = TRUE]
    ELSE FindSimilarProductsTry(description, rows, sims, limit, env)

\* find_similar_products(image_description, uploaded_image_bytes, limit),
\* lines 2314-2435: [] without a database, [] when the try block raises.
FindSimilarProducts(description, rows, sims, limit, env) ==
    IF env = "no_db" THEN [NoFound EXCEPT !.called = TRUE]
    ELSE LET tried == FindSimilarProductsTry(description, rows, sims, limit, env)
         IN IF tried.raised THEN [NoFound EXCEPT !.called = TRUE, !.path = "except"]
            ELSE tried

InitFind ==
    /\ freq \in [description : FindDescriptions, rows : CandidateLists,
                 sims : [TableIds -> SimChoices], limit : Limits, env : Envs]
    /\ \A pid \in TableIds :
          freq.sims[pid] # <<>> =>
              /\ freq.env = "ok"
              /\ \E i \in 1..Len(freq.rows) : freq.rows[i].product_id = pid
    /\ freq.env \in {"no_images", "sim_failure"} => freq.rows # <<>>
    /\ fres = NoFound

FindSimilarProductsCall ==
    /\ fres' = FindSimilarProducts(freq.description, freq.rows, freq.sims,
                                   freq.limit, freq.env)
    /\ UNCHANGED <<freq, sreq, sres>>
    /\ UNCHANGED <<kbvars, ovars, hvars>>

\* ------------------------------------------------------------ chat history
\* The sessions of the chats.
Sessions == {"s1", "s2"}

\* The cache keeps the last 5 messages of a session (lines 779, 786, 833).
CacheSize == 5

\* The limits the callers pass to get_conversation_history (10 at lines
\* 1051 and 1978) and a limit below the size of the cache.
HistoryLimits == {3, 10}

\* The k-th message of a session as the table holds it; created_at is set
\* by the database.
StoredMessage(k) == [sender |-> "user", message |-> k, timestamp |-> "created_at"]

\* message_obj of lines 818-825: the same message with the time of the
\* server's clock after the insert.
MessageObj(k) == [sender |-> "user", message |-> k, timestamp |-> "now"]

\* s[-n:] for n > 0.
LastN(s, n) == SubSeq(s, Max(1, Len(s) - n + 1), Len(s))

\* get_session_history(session_id, limit), lines 551-591: the newest limit
\* rows (ORDER BY created_at DESC LIMIT limit; created_at grows with every
\* insert) in reversed order, oldest first; [] when the query fails or
\* there is no database.
GetSessionHistory(rows, limit, readOk) ==
    IF readOk THEN LastN(rows, limit) ELSE <<>>

\* The rows of chat_sessions of a session.
SessionRows(table, session_id) ==
    SelectSeq(table, LAMBDA r : r.session_id = session_id)

\* INSERT INTO chat_sessions ... total_messages = 1 (lines 648-654): with a
\* unique key a second row for the session id is refused, which the except
\* of line 668 swallows.
InsertSession(table, session_id, unique) ==
    IF unique /\ SessionRows(table, session_id) # <<>> THEN table
    ELSE Append(table, [session_id |-> session_id, total_messages |-> 1])

\* UPDATE chat_sessions SET total_messages = total_messages + 1 WHERE
\* session_id = %s (lines 657-664): every row of the session.
UpdateSession(table, session_id) ==
    [i \in 1..Len(table) |->
        IF table[i].session_id = session_id
        THEN [table[i] EXCEPT !.total_messages = @ + 1] ELSE table[i]]

\* Lines 827-834 without the cut to the last 5 messages.
CacheAfterSaveUncut(cache, session_id, message_obj) ==
    [cache EXCEPT ![session_id] =
        <<Append(IF @ = <<>> THEN <<>> ELSE @[1], message_obj)>>]

\* Lines 827-834: the message is appended to the session's list, which is
\* created when missing and cut to its last 5 messages.
CacheAfterSave(cache, session_id, message_obj) ==
    [cache EXCEPT ![session_id] =
        <<LastN(Append(IF @ = <<>> THEN <<>> ELSE @[1], message_obj), CacheSize)>>]

IdleSave == [pc |-> "idle", session_id |-> "", message |-> 0, session_exists |-> FALSE]

NoHistory == [op |-> "none", session_id |-> "", limit |-> 0, success |-> FALSE,
              failed |-> FALSE, hit |-> FALSE, out |-> <<>>]

\* The rows an earlier run of the server left for a session.
PersistedRows == [k \in 1..PersistedMessages |-> StoredMessage(k)]

RECURSIVE PersistedSessions(_, _)
PersistedSessions(rows, ids) ==
    IF ids = {} THEN <<>>
    ELSE LET session_id == CHOOSE x \in ids : TRUE
             rest == PersistedSessions(rows, ids \ {session_id})
         IN IF rows[session_id] = <<>> THEN rest
            ELSE <<[session_id |-> session_id,
                    total_messages |-> Len(rows[session_id])]>> \o rest

\* The server starts with an empty cache; the tables hold what earlier runs
\* stored: for each session nothing, or its messages and its session row.
InitHistory ==
    /\ chat_conversations \in [Sessions -> {<<>>, PersistedRows}]
    /\ chat_sessions = PersistedSessions(chat_conversations, Sessions)
    /\ uniqueSession \in BOOLEAN
    /\ message_cache = [session_id \in Sessions |-> <<>>]
    /\ hc = [w \in Workers |-> IdleSave]
    /\ saves = 0
    /\ hres = NoHistory

\* The end of save_message_to_history after save_message returned True
\* (lines 816-836): the cache is updated and True is returned.
ReturnSaved(w, table) ==
    /\ chat_sessions' = table
    /\ message_cache' = CacheAfterSave(message_cache, hc[w].session_id,
                                       MessageObj(hc[w].message))
    /\ hc' = [hc EXCEPT ![w] = IdleSave]
    /\ hres' = [NoHistory EXCEPT !.op = "save", !.session_id = hc[w].session_id,
                                 !.success = TRUE]

\* save_message_to_history up to the INSERT into chat_conversations (lines
\* 811 and 520-538): without a database or when the insert raises, False is
\* returned and the cache is left alone.
SaveMessage(w) ==
    /\ hc[w].pc = "idle"
    /\ saves < MaxSaves
    /\ saves' = saves + 1
    /\ \E session_id \in Sessions, insertOk \in BOOLEAN :
          IF ~insertOk
          THEN /\ hres' = [NoHistory EXCEPT !.op = "save", !.session_id = session_id,
                                            !.success = FALSE, !.failed = TRUE]
               /\ UNCHANGED <<chat_conversations, hc>>
          ELSE LET k == Len(chat_conversations[session_id]) + 1
               IN /\ chat_conversations' =
                        [chat_conversations EXCEPT ![session_id] = Append(@, StoredMessage(k))]
                  /\ hc' = [hc EXCEPT ![w] = [pc |-> "select", session_id |-> session_id,
                                              message |-> k, session_exists |-> FALSE]]
                  /\ hres' = NoHistory
    /\ UNCHANGED <<chat_sessions, uniqueSession, message_cache>>
    /\ UNCHANGED <<kbvars, ovars, mvars>>

\* _update_session_info, the SELECT of line 642; when it raises, the except
\* of line 668 swallows the error and save_message returns True.
SelectSession(w) ==
    /\ hc[w].pc = "select"
    /\ \E selectOk \in BOOLEAN :
          IF selectOk
          THEN /\ hc' = [hc EXCEPT ![w].pc = "write",
                                   ![w].session_exists =
                                       SessionRows(chat_sessions, hc[w].session_id) # <<>>]
               /\ hres' = NoHistory
               /\ UNCHANGED <<chat_sessions, message_cache>>
          ELSE ReturnSaved(w, chat_sessions)
    /\ UNCHANGED <<chat_conversations, uniqueSession, saves>>
    /\ UNCHANGED <<kbvars, ovars, mvars>>

\* _update_session_info, the INSERT or UPDATE of lines 645-664, and the
\* rest of the call; an error of the statement is swallowed.
WriteSession(w) ==
    /\ hc[w].pc = "write"
    /\ \E writeOk \in BOOLEAN :
          ReturnSaved(w, IF ~writeOk THEN chat_sessions
                         ELSE IF hc[w].session_exists
                         THEN UpdateSession(chat_sessions, hc[w].session_id)
                         ELSE InsertSession(chat_sessions, hc[w].session_id,
                                            uniqueSession))
    /\ UNCHANGED <<chat_conversations, uniqueSession, saves>>
    /\ UNCHANGED <<kbvars, ovars, mvars>>

\* get_conversation_history(session_id, limit), lines 765-788, by a thread
\* that is in no other call.
GetConversationHistory(w) ==
    /\ hc[w].pc = "idle"
    /\ \E session_id \in Sessions, limit \in HistoryLimits, readOk \in BOOLEAN :
          LET cached == message_cache[session_id]
              history == GetSessionHistory(chat_conversations[session_id], limit, readOk)
          IN IF cached # <<>> /\ Len(cached[1]) >= Min(limit, CacheSize)
             THEN /\ hres' = [NoHistory EXCEPT !.op = "get", !.session_id = session_id,
                                               !.limit = limit, !.hit = TRUE,
                                               !.out = LastN(cached[1], limit)]
                  /\ UNCHANGED message_cache
             ELSE /\ hres' = [NoHistory EXCEPT !.op = "get", !.session_id = session_id,
                                               !.limit = limit, !.failed = ~readOk,
                                               !.out = history]
                  /\ message_cache' =
                        [message_cache EXCEPT ![session_id] = <<LastN(history, CacheSize)>>]
    /\ UNCHANGED <<chat_conversations, chat_sessions, uniqueSession, hc, saves>>
    /\ UNCHANGED <<kbvars, ovars, mvars>>

\* The chat history of the behaviours that chat with nobody.
IdleHistory ==
    /\ chat_conversations = [session_id \in Sessions |-> <<>>]
    /\ chat_sessions = <<>>
    /\ uniqueSession = FALSE
    /\ message_cache = [session_id \in Sessions |-> <<>>]
    /\ hc = [w \in Workers |-> IdleSave]
    /\ saves = 0
    /\ hres = NoHistory

\* The matcher of the behaviours that match nothing.
IdleSignals ==
    /\ sreq = [description |-> <<>>, product |-> [product_name |-> <<>>,
                                                  product_discription |-> <<>>,
                                                  product_type |-> <<>>],
               embed |-> [ok |-> FALSE, cosine |-> 0], seed |-> 0]
    /\ sres = NoScore

IdleFind ==
    /\ freq = [description |-> <<>>, rows |-> <<>>, sims |-> [pid \in TableIds |-> <<>>],
               limit |-> DefaultLimit, env |-> "no_db"]
    /\ fres = NoFound

vars == <<vectorDb, addPolicy, collection, catalog, rb, rebuilds, updates,
          stable, last, qres, order, now, ores, sreq, sres, freq, fres,
          chat_conversations, chat_sessions, uniqueSession, message_cache, hc, saves,
          hres>>

\* The order of the knowledge-index behaviours, which look no order up.
IdleOrder ==
    /\ order = [order_id |-> <<"7">>, order_date |-> <<0>>, shipping_date |-> <<>>,
                tracking_number |-> <<>>]
    /\ now = 0
    /\ ores = NoLookup

\* The knowledge index of the order-lookup behaviours, which is left alone.
IdleKB ==
    /\ vectorDb = TRUE
    /\ addPolicy = "ignore"
    /\ collection = <<>>
    /\ catalog = <<>>
    /\ rb = [w \in Workers |-> IdleCall]
    /\ rebuilds = 0
    /\ updates = 0
    /\ stable = <<>>
    /\ last = NoRun
    /\ qres = NoQuery

Init == InitKB /\ IdleOrder /\ IdleSignals /\ IdleFind /\ IdleHistory

\* Request threads rebuild and query concurrently (Flask serves each
\* request on its own thread).
Next ==
    \/ \E w \in Workers : BeginRebuild(w)
    \/ \E w \in Workers : Render(w)
    \/ \E w \in Workers : AddBatch(w)
    \/ SearchKnowledge

Spec == Init /\ [][Next]_vars

\* One request thread rebuilds at a time: the calls run in sequence.
NextSeq ==
    \/ BeginRebuild(1)
    \/ Render(1)
    \/ AddBatch(1)
    \/ UpdateCatalog
    \/ SearchKnowledge

SpecSeq == Init /\ [][NextSeq]_vars

InitOrderSpec == IdleKB /\ InitOrder /\ IdleSignals /\ IdleFind /\ IdleHistory

NextOrder ==
    \/ GetOrderById
    \/ GetOrderByTrackingNumber
    \/ Tick

SpecOrder == InitOrderSpec /\ [][NextOrder]_vars

\* The clock keeps running and orders keep being looked up.
SpecOrderFair ==
    /\ SpecOrder
    /\ WF_vars(Tick)
    /\ WF_vars(GetOrderById)
    /\ WF_vars(GetOrderByTrackingNumber)

InitSignalsSpec == IdleKB /\ IdleOrder /\ InitSignals /\ IdleFind /\ IdleHistory

NextSignals ==
    \/ CalculateAdvancedSimilarityCall
    \/ DetectProductCategoryCall
    \/ ExtractKeywordsCall

SpecSignals == InitSignalsSpec /\ [][NextSignals]_vars

InitFindSpec == IdleKB /\ IdleOrder /\ IdleSignals /\ InitFind /\ IdleHistory

NextFind == FindSimilarProductsCall

SpecFind == InitFindSpec /\ [][NextFind]_vars

InitHistorySpec == IdleKB /\ IdleOrder /\ IdleSignals /\ IdleFind /\ InitHistory

\* The history calls of one request thread: a sequence of calls.
NextHistorySeq ==
    \/ SaveMessage(1)
    \/ SelectSession(1)
    \/ WriteSession(1)
    \/ GetConversationHistory(1)

SpecHistorySeq == InitHistorySpec /\ [][NextHistorySeq]_vars

\* The history calls of concurrent request threads.
NextHistory ==
    \/ \E w \in Workers : SaveMessage(w)
    \/ \E w \in Workers : SelectSession(w)
    \/ \E w \in Workers : WriteSession(w)
    \/ \E w \in Workers : GetConversationHistory(w)

SpecHistory == InitHistorySpec /\ [][NextHistory]_vars

\* ------------------------------------------------- knowledge index: claims

\* C1: a search_knowledge call that runs while a rebuild is in progress sees
\* the complete contents from before the rebuild or the complete contents
\* after it, never an emptied or partly refilled collection.
C1_QuerySeesWholeIndex == ~qres.partial

\* C2: two rebuilds never interleave their delete and add steps: at most one
\* build_knowledge_embeddings call is between its start and its end.
C2_RebuildsSerialized == Cardinality(Active(rb)) <= 1

\* The ids, in order, a fixed query gets from a collection.
AnswerIds(coll, text, k) ==
    LET found == Nearest(coll, Encode(text), k)
    IN [i \in 1..Len(found) |-> found[i].id]

FixedQueries == {StaticDocs[1].text, <<"shop", "Policy:">>}

\* C3: rebuild is idempotent.  When a rebuild completes after another
\* completed rebuild that read the same sources, the index holds the same
\* documents as after the first and every fixed query returns the same ids
\* in the same order, whether or not the clear step of either was skipped.
C3_RebuildIdempotent ==
    [][(/\ last.ended /\ last.outcome = "ok"
        /\ last'.ended /\ last'.outcome = "ok"
        /\ last'.content = last.content)
       => /\ DocSet(last'.coll) = DocSet(last.coll)
          /\ \A text \in FixedQueries, k \in 1..MaxK :
                AnswerIds(last'.coll, text, k) = AnswerIds(last.coll, text, k)]_vars

\* C4: search_knowledge never raises; it returns [] when the vector database
\* is missing, when the collection is empty and when the embedding provider
\* or the store fails, and never more than n_results items.
C4_SearchNeverRaises ==
    qres.called =>
        /\ ~qres.raised
        /\ Len(qres.out) <= qres.k
        /\ (~vectorDb \/ qres.size = 0 \/ qres.failed) => qres.out = <<>>

\* C4 witness: a query of a populated index whose provider or store failed.
C4_Witness == qres.called /\ vectorDb /\ qres.failed /\ qres.size > 1 /\ qres.out = <<>>

\* The documents of the records of a catalog read that can be rendered.
RenderableDocs(content) ==
    DocSet(StaticDocs)
    \cup {ProductDoc(content.products[i]) :
            i \in {j \in 1..Len(content.products) : ~FloatRaises(content.products[j])}}
    \cup {CategoryDoc(content.categories[i]) : i \in 1..Len(content.categories)}

\* C5: a record that cannot be rendered is skipped and every other record of
\* that rebuild is indexed: a rebuild that met a product without a price and
\* no provider or store failure ends with all the other documents stored.
C5_MalformedRecordSkipped ==
    (/\ last.ended
     /\ last.outcome \notin {"embed_fail", "store_fail", "unavailable"}
     /\ RenderRaises(last.content))
    => RenderableDocs(last.content) \subseteq DocSet(last.coll)

\* C6: the document ids one rebuild produces are pairwise distinct: distinct
\* source entities never share an id, so no add batch repeats an id.
C6_IdsDistinct == \A w \in Workers : rb[w].pc = "add" => DistinctIds(rb[w].docs)

\* C7: self-retrieval.  When the index holds exactly one document d after a
\* rebuild, search_knowledge(d.text, 1), answered by provider and store,
\* returns one item whose content is d.text and whose metadata is d's.
C7_SelfRetrieval ==
    (/\ qres.called /\ vectorDb /\ ~qres.failed
     /\ last.ended /\ Len(collection) = 1
     /\ qres.k = 1 /\ qres.text = collection[1].text)
    => /\ Len(qres.out) = 1
       /\ qres.out[1].content = collection[1].text
       /\ qres.out[1].metadata = collection[1].meta

\* C7 witness: such a query of a one-document index was answered.
C7_Witness ==
    /\ qres.called /\ vectorDb /\ ~qres.failed
    /\ last.ended /\ Len(collection) = 1
    /\ qres.k = 1 /\ qres.text = collection[1].text
    /\ Len(qres.out) = 1

\* ---------------------------------------------------- order status: claims
Looked == ores.via # "none"

\* C8: with a shipping date, and the time since shipped_at measured in whole
\* days d: d >= 5 gives Delivered with the delivery date shipped_at + 5
\* days, 1 <= d < 5 gives In Transit with estimated_delivery = shipped_at +
\* 5 days, d < 1 gives Shipped; the age of the order plays no part.
C8_StatusWithShippingDate ==
    (Looked /\ order.shipping_date # <<>>) =>
        LET shipped == order.shipping_date[1]
            elapsed == now - shipped
            due == <<(shipped + 5 * UnitsPerDay) \div UnitsPerDay>>
            st == ores.status
        IN /\ elapsed >= 5 * UnitsPerDay =>
                st.tracking_status = "Delivered" /\ st.message_date = due
           /\ (elapsed >= UnitsPerDay /\ elapsed < 5 * UnitsPerDay) =>
                st.tracking_status = "In Transit" /\ st.estimated_delivery = due
           /\ elapsed < UnitsPerDay => st.tracking_status = "Shipped"

\* C8 witness: an order placed long ago, shipped exactly five days before
\* the lookup, is reported delivered.
C8_Witness ==
    /\ Looked /\ order.shipping_date # <<>>
    /\ now - order.shipping_date[1] = 5 * UnitsPerDay
    /\ now - order.order_date[1] > 7 * UnitsPerDay
    /\ ores.status.tracking_status = "Delivered"

\* C9: without a shipping date and with now not before the order date, and
\* the time since order_placed_at measured in whole days d: d = 0 gives Order
\* Confirmed, d = 1 Processing, d in {2, 3} Ready to Ship with
\* estimated_shipping = order_placed_at + 3 days, d > 3 Shipped with
\* estimated_delivery = order_placed_at + 7 days.
C9_StatusWithoutShippingDate ==
    (Looked /\ order.shipping_date = <<>> /\ now >= order.order_date[1]) =>
        LET placed == order.order_date[1]
            elapsed == now - placed
            st == ores.status
        IN /\ elapsed < UnitsPerDay => st.tracking_status = "Order Confirmed"
           /\ (elapsed >= UnitsPerDay /\ elapsed < 2 * UnitsPerDay) =>
                st.tracking_status = "Processing"
           /\ (elapsed >= 2 * UnitsPerDay /\ elapsed < 4 * UnitsPerDay) =>
                /\ st.tracking_status = "Ready to Ship"
                /\ st.estimated_shipping = <<(placed + 3 * UnitsPerDay) \div UnitsPerDay>>
           /\ elapsed >= 4 * UnitsPerDay =>
                /\ st.tracking_status = "Shipped"
                /\ st.estimated_delivery = <<(placed + 7 * UnitsPerDay) \div UnitsPerDay>>

\* C9 witness: an unshipped order looked up by its tracking number on the
\* third day after it was placed is ready to ship.
C9_Witness ==
    /\ ores.via = "tracking" /\ order.shipping_date = <<>>
    /\ now - order.order_date[1] >= 3 * UnitsPerDay
    /\ now - order.order_date[1] < 4 * UnitsPerDay
    /\ ores.status.tracking_status = "Ready to Ship"

\* The keys the status derivation is known to set.
StatusKeys == {"tracking_status", "tracking_message", "estimated_delivery",
               "estimated_shipping"}

\* C10: a shipping date earlier than the order date is ignored: the status
\* is the one the order age gives without a shipping date, and the result
\* carries a flag for the anomaly.
C10_InvalidShippingDateIgnored ==
    (ores.via = "id" /\ order.shipping_date # <<>>
     /\ order.shipping_date[1] < order.order_date[1]
     /\ now >= order.order_date[1]) =>
        /\ ores.status.tracking_status =
              StatusById(order.order_date, <<>>, now).tracking_status
        /\ ores.status.keys \ StatusKeys # {}

\* C11: get_order_by_id returns a stored tracking number unchanged with
\* has_tracking = true; without one it returns has_tracking = false and a
\* placeholder made of the order's id and the month and day of its order
\* date only, so that two lookups of the same order give the same
\* placeholder; has_tracking is true only with a stored number.
C11_TrackingNumber ==
    [][ores'.via = "id" =>
          /\ order.tracking_number # <<>> =>
                /\ ores'.tracking.tracking_number = order.tracking_number
                /\ ores'.tracking.has_tracking
          /\ order.tracking_number = <<>> =>
                /\ ~ores'.tracking.has_tracking
                /\ ores'.tracking.tracking_suffix = <<MonthDay(order.order_date[1])>>
                /\ ores.via = "id" => ores'.tracking = ores.tracking
          /\ ores'.tracking.has_tracking => order.tracking_number # <<>>]_vars

\* ------------------------------------------------------ matcher: claims
Scored == sres.op = "similarity"

\* C12: the composite score of calculate_advanced_similarity is in [0, 1]
\* and so is each of its four signals, for every description and product;
\* a signal in which an exception is raised (the embedder fails, the
\* description or the product type is None) is 0 and the call returns.
C12_ScoresInUnitInterval ==
    Scored =>
        /\ ~sres.raised
        /\ sres.composite >= 0 /\ sres.composite <= 10 * Scale
        /\ \A name \in {"semantic", "keyword", "category", "visual"} :
              sres.signals[name] >= 0 /\ sres.signals[name] <= Scale
        /\ ~sreq.embed.ok => sres.signals.semantic = 0
        /\ sreq.description = <<>> =>
              /\ sres.signals.keyword = 0
              /\ sres.signals.category = 0
              /\ sres.signals.visual = 0
        /\ sreq.product.product_type = <<>> => sres.signals.category = 0

\* C12 witness: the embedder raises and the product type is None, and the
\* composite is still made of the keyword signal.
C12_Witness ==
    /\ Scored
    /\ ~sreq.embed.ok
    /\ sreq.product.product_type = <<>>
    /\ sres.signals.keyword = Scale
    /\ sres.composite = 3 * Scale

\* The number of keywords of the i-th category of the mapping that occur
\* in a description.
Occurring(description, i) ==
    Cardinality({k \in 1..Len(CategoryMapping[i].keywords) :
                    Contains(Lower(description), CategoryMapping[i].keywords[k])})

\* C17: detect_product_category returns a category none of whose rivals
\* has more keywords occurring in the description and none of whose
\* predecessors in the mapping has as many; when no keyword occurs it
\* returns 'clothing' if a generic apparel word occurs and 'general'
\* otherwise.
C17_CategoryByMajority ==
    (sres.op = "category" /\ ~sres.raised) =>
        LET d == sreq.description[1]
            positions == 1..Len(CategoryMapping)
        IN IF \E i \in positions : Occurring(d, i) > 0
           THEN \E i \in positions :
                   /\ sres.category = CategoryMapping[i].category
                   /\ \A j \in positions : Occurring(d, j) <= Occurring(d, i)
                   /\ \A j \in 1..(i - 1) : Occurring(d, j) < Occurring(d, i)
           ELSE IF \E w \in {"clothing", "wear", "garment", "outfit"} :
                       Contains(Lower(d), <<w>>)
           THEN sres.category = <<"clothing">>
           ELSE sres.category = <<"general">>

\* C17 witness: shirt and bag tie with two keywords each and the earlier
\* category, shirt, is returned.
C17_Witness ==
    /\ sres.op = "category" /\ ~sres.raised
    /\ Occurring(sreq.description[1], 1) = 2
    /\ Occurring(sreq.description[1], 2) = 2
    /\ sres.category = <<"shirt">>

\* C19: for the empty description every one of the four signals is 0 for
\* every product, the composite score is 0 and the detected category is
\* 'general'.
C19_EmptyDescriptionScoresZero ==
    sreq.description = << <<>> >> =>
        /\ Scored =>
              /\ sres.signals = NoSignals
              /\ sres.composite = 0
        /\ sres.op = "category" => sres.category = <<"general">>

\* str.split(): the words of a text between blanks.
RECURSIVE SplitWords(_, _)
SplitWords(text, word) ==
    IF text = <<>> THEN (IF word = <<>> THEN <<>> ELSE <<word>>)
    ELSE IF Head(text) = " "
    THEN (IF word = <<>> THEN <<>> ELSE <<word>>) \o SplitWords(Tail(text), <<>>)
    ELSE SplitWords(Tail(text), Append(word, Head(text)))

\* The category and a word are linked by the synonym table, in either
\* direction.
Linked(category, word) ==
    \E c \in 1..Len(CategorySynonyms) :
        \/ /\ category = CategorySynonyms[c].category
           /\ InSeq(word, CategorySynonyms[c].synonyms)
        \/ /\ word = CategorySynonyms[c].category
           /\ InSeq(category, CategorySynonyms[c].synonyms)

\* C20: calculate_category_similarity is 1.0 exactly when the product's
\* category equals, in lower case, a whole word of the description; 0.8
\* when there is no such word but the category and a word are linked by
\* the synonym table; 0.0 otherwise, also when the category is only a part
\* of a longer word.
C20_CategoryByWholeToken ==
    (Scored /\ sreq.description # <<>> /\ sreq.product.product_type # <<>>
            /\ sreq.product.product_type[1] # <<>>) =>
        LET category == Lower(sreq.product.product_type[1])
            words == SplitWords(Lower(sreq.description[1]), <<>>)
        IN sres.signals.category =
              IF InSeq(category, words) THEN Scale
              ELSE IF \E w \in 1..Len(words) : Linked(category, words[w])
              THEN (8 * Scale) \div 10
              ELSE 0

\* ------------------------------------------------ product search: claims
OnImagePath == fres.path = "image"

\* The similarity the search has for the product of a row.
Similarity(pid) == IF freq.env = "sim_failure" THEN 0 ELSE SimilarityOf(freq.sims, pid)

\* The range of a sequence.
Range(s) == {s[i] : i \in 1..Len(s)}

\* C13: on the image path a candidate is tagged visual_match exactly when
\* its similarity is above 0.3, a similarity of exactly 0.3 is tagged
\* false and kept out of the visual group, and the tag of every product
\* agrees with the group it is in.
C13_ThresholdExclusive ==
    OnImagePath =>
        /\ \A p \in Range(fres.matched_products) :
              p.visual_match /\ Similarity(p.product_id) > Threshold
        /\ \A p \in Range(fres.category_products) :
              ~p.visual_match /\ Similarity(p.product_id) <= Threshold
        /\ \A p \in Range(fres.out) : p.visual_match <=> Similarity(p.product_id) > Threshold
        /\ \A r \in Range(freq.rows) :
              (\E p \in Range(fres.matched_products) : p.product_id = r.product_id)
                  <=> Similarity(r.product_id) > Threshold

\* C13 witness: a result with a product at exactly 0.3 in the category
\* group and a product just above 0.3 in the visual group.
C13_Witness ==
    /\ OnImagePath
    /\ \E p \in Range(fres.out) :
          p.similarity_score = Threshold /\ ~p.visual_match /\ p.match_reason = "category"
    /\ \E p \in Range(fres.out) :
          p.similarity_score = Threshold + 1 /\ p.visual_match /\ p.match_reason = "visual"

\* C14: on the image path the result has every visual match before every
\* other product, the visual matches in non-increasing similarity order, at
\* most 3 visual matches, at most 3 others and at most limit products.
C14_ResultOrderAndCaps ==
    OnImagePath =>
        LET out == fres.out
            visual == {i \in 1..Len(out) : out[i].visual_match}
            others == {i \in 1..Len(out) : ~out[i].visual_match}
        IN /\ \A i \in visual, j \in others : i < j
           /\ \A i \in visual, j \in visual :
                 i < j => out[i].similarity_score >= out[j].similarity_score
           /\ Cardinality(visual) <= 3
           /\ Cardinality(others) <= 3
           /\ Len(out) <= freq.limit

\* C14 witness: four candidates are visual matches of different
\* similarity and three of them are returned, followed by a category match.
C14_Witness ==
    /\ OnImagePath
    /\ Len(fres.matched_products) = 4
    /\ Len(fres.out) = 4
    /\ fres.out[1].similarity_score > fres.out[3].similarity_score
    /\ fres.out[3].visual_match
    /\ ~fres.out[4].visual_match

\* The cosines the embedder may give for the text of a product.
CosineChoices == {0, Scale \div 2, Scale}

\* The composite score of a candidate for the description of the search.
Composite(row, cosines, seed) ==
    CalculateAdvancedSimilarity(<<freq.description>>, row,
                                [ok |-> TRUE, cosine |-> cosines[row.product_id]], seed)

\* C15: on the image path every candidate that is not a visual match is
\* scored with the four-signal composite, and the part of the result after
\* the visual matches is the up to 3 such candidates with the highest
\* composite score, in non-increasing order of it, whatever cosines the
\* embedder gives for the semantic signal and whatever the hash seed of
\* the process.
C15_OthersByCompositeScore ==
    (OnImagePath /\ freq.limit = DefaultLimit) =>
        LET others == SelectSeq(freq.rows, LAMBDA r : Similarity(r.product_id) <= Threshold)
            tail == SelectSeq(fres.out, LAMBDA p : ~p.visual_match)
        IN \E cosines \in [TableIds -> CosineChoices], seed \in HashSeeds :
              /\ Len(tail) = Min(3, Len(others))
              /\ \A i \in 1..Len(tail) :
                    \E r \in Range(others) :
                        /\ r.product_id = tail[i].product_id
                        /\ \A j \in (i + 1)..Len(tail) :
                              \E q \in Range(others) :
                                  /\ q.product_id = tail[j].product_id
                                  /\ Composite(r, cosines, seed) >= Composite(q, cosines, seed)
                        /\ \A q \in Range(others) :
                              (\A k \in 1..Len(tail) : tail[k].product_id # q.product_id)
                                  => Composite(r, cosines, seed) >= Composite(q, cosines, seed)

\* The ids of a list of products are pairwise distinct.
DistinctProductIds(products) ==
    \A i, j \in 1..Len(products) :
        i # j => products[i].product_id # products[j].product_id

\* C16: given candidates of pairwise distinct product ids, the visual
\* group and the category group share no id and no product id appears
\* twice in the result.
C16_NoDuplicateIds ==
    (OnImagePath /\ DistinctProductIds(freq.rows)) =>
        /\ \A p \in Range(fres.matched_products), q \in Range(fres.category_products) :
              p.product_id # q.product_id
        /\ DistinctProductIds(fres.out)

\* C16 witness: a result of five different products, visual matches and
\* category matches, two of the visual matches matching the category too.
C16_Witness ==
    /\ OnImagePath
    /\ DistinctProductIds(freq.rows)
    /\ Len(fres.out) = 5
    /\ fres.out[1].visual_match
    /\ ~fres.out[5].visual_match
    /\ Cardinality({i \in 1..Len(fres.out) :
                       /\ fres.out[i].visual_match
                       /\ CategoryMatch(DetectProductCategory(freq.description),
                                        fres.out[i])}) >= 2

\* C18 as stated: find_similar_products never raises, and any internal
\* failure, a database error or a similarity failure, yields an empty list.
C18_FailureGivesEmptyList ==
    fres.called =>
        /\ ~fres.raised
        /\ freq.env \in {"no_db", "db_error", "sim_failure"} => fres.out = <<>>

\* C18 amended: find_similar_products never raises; without a database or
\* when one of its queries raises it returns the empty list; without
\* candidates, without an uploaded image or without image data it returns
\* the category fallback list, also for the empty description; when the
\* similarities cannot be computed every candidate counts as similarity 0
\* and the category matches are returned without any visual match.
C18_NeverRaises ==
    fres.called =>
        /\ ~fres.raised
        /\ freq.env \in {"no_db", "db_error"} => fres.out = <<>>
        /\ (freq.env \in {"no_upload", "no_images"}
            \/ (freq.env = "ok" /\ freq.rows = <<>>)) =>
              /\ fres.path = "fallback"
              /\ Len(fres.out) <= freq.limit
              /\ \A p \in Range(fres.out) : ~p.visual_match /\ p.similarity_score = 0
        /\ freq.env = "sim_failure" =>
              /\ fres.path = "image"
              /\ fres.matched_products = <<>>
              /\ fres.out = Take(Take(fres.category_products, 3), freq.limit)

\* C18 witness: a query raises and the result is the empty list.
C18_Witness ==
    /\ fres.called
    /\ freq.env = "db_error"
    /\ freq.rows # <<>>
    /\ fres.path = "except"
    /\ fres.out = <<>>

\* ------------------------------------------------ keyword signal: claims
\* C21: extract_keywords returns at most 8 keywords, no keyword twice; and
\* the keyword signal is the number of the extracted keywords that occur
\* in the (lowered) product text divided by the number of extracted
\* keywords, 0 when none is extracted.
C21_KeywordsBoundedAndRatio ==
    /\ (sres.op = "keywords" /\ ~sres.raised) =>
          /\ Len(sres.keywords) <= 8
          /\ \A i, j \in 1..Len(sres.keywords) :
                i # j => sres.keywords[i] # sres.keywords[j]
    /\ (Scored /\ sreq.description # <<>>) =>
          LET extracted == ExtractKeywords(sreq.description[1], sreq.seed)
              text == Lower(ProductText(sreq.product))
              present == {i \in 1..Len(extracted) : Contains(text, extracted[i])}
          IN IF extracted = <<>> THEN sres.signals.keyword = 0
             ELSE sres.signals.keyword * Len(extracted) = Cardinality(present) * Scale

\* C21 witness: a caption with nine vocabulary terms gives eight keywords.
C21_Witness ==
    /\ sres.op = "keywords" /\ ~sres.raised
    /\ sreq.description[1] \in LongDescriptions
    /\ Len(sres.keywords) = 8

\* C30: the keyword list of a description, and with it the keyword signal
\* and the composite score of a description and a product, are the same in
\* every process: they do not depend on the hash seed, that is on the
\* iteration order of the vocabulary set.
C30_KeywordsIndependentOfSetOrder ==
    /\ (sres.op = "keywords" /\ ~sres.raised) =>
          \A seed \in HashSeeds :
              ExtractKeywords(sreq.description[1], seed) = sres.keywords
    /\ (Scored /\ sreq.description # <<>>) =>
          \A seed \in HashSeeds :
              /\ CalculateKeywordSimilarity(sreq.description, sreq.product, seed)
                    = sres.signals.keyword
              /\ CalculateAdvancedSimilarity(sreq.description, sreq.product,
                                             sreq.embed, seed) = sres.composite

\* ------------------------------------------------ failed rebuild: claims
\* C22: a rebuild that ends with an exception after its clear step (the
\* embedder raised, a record could not be rendered, or a batch add failed)
\* leaves the index as it was before the rebuild: every fixed query that
\* had results before the rebuild has the same results after it.  The
\* calls run in sequence, so `stable` is the collection from before the
\* rebuild that ends.
C22_FailedRebuildKeepsIndex ==
    [][(/\ rb[1].pc # "idle" /\ rb'[1].pc = "idle"
        /\ last'.ended /\ last'.outcome # "ok")
       => \A text \in FixedQueries, k \in 1..MaxK :
              AnswerIds(stable, text, k) # <<>>
                  => AnswerIds(collection', text, k) = AnswerIds(stable, text, k)]_vars

\* ------------------------------------------- order status over time: claims
\* C23: the two copies of the status derivation agree: a lookup by order id
\* gives the status, message, estimated delivery and estimated shipping
\* that the derivation of get_order_by_tracking_number gives for the same
\* order and time, and a lookup by tracking number gives those of the
\* derivation of get_order_by_id.
C23_StatusCopiesAgree ==
    /\ ores.via = "id" =>
          ores.status = StatusByTracking(order.order_date, order.shipping_date, now)
    /\ ores.via = "tracking" =>
          ores.status = StatusById(order.order_date, order.shipping_date, now)

\* C23 witness: a shipped order is found in transit by its tracking number.
C23_Witness ==
    /\ ores.via = "tracking" /\ order.shipping_date # <<>>
    /\ ores.status.tracking_status = "In Transit"
    /\ ores.status.estimated_delivery # <<>>

\* The place of a status label in the lifecycle.
LifecycleRank(tracking_status) ==
    CASE tracking_status = "Order Confirmed" -> 0
      [] tracking_status = "Processing" -> 1
      [] tracking_status = "Ready to Ship" -> 2
      [] tracking_status = "Shipped" -> 3
      [] tracking_status = "In Transit" -> 4
      [] tracking_status = "Delivered" -> 5

\* The status the lookup of the current state would derive at time t.
StatusAt(t) ==
    IF ores.via = "id" THEN StatusById(order.order_date, order.shipping_date, t)
    ELSE StatusByTracking(order.order_date, order.shipping_date, t)

\* C24: for a fixed order the status never moves backwards in the
\* lifecycle as time advances: the status a lookup reports is not later in
\* the lifecycle than the status the same lookup reports at any later
\* time, and after Delivered every later status is Delivered.
C24_StatusNeverMovesBack ==
    Looked =>
        \A t \in now..MaxTime :
            /\ LifecycleRank(StatusAt(t).tracking_status)
                  >= LifecycleRank(ores.status.tracking_status)
            /\ ores.status.tracking_status = "Delivered"
                  => StatusAt(t).tracking_status = "Delivered"

C26_LabelOnlyUnderItsRow ==
    Looked =>
        LET label == ores.status.tracking_status
            shipped == order.shipping_date # <<>>
            d == IF shipped THEN Days(now, order.shipping_date[1])
                 ELSE Days(now, order.order_date[1])
        IN /\ label = "Delivered" => shipped /\ d >= 5
           /\ label = "In Transit" => shipped /\ d >= 1 /\ d < 5
           /\ label = "Shipped" => (shipped /\ d < 1) \/ (~shipped /\ d > 3)
           /\ label = "Order Confirmed" => ~shipped /\ d = 0
           /\ label = "Processing" => ~shipped /\ d = 1
           /\ label = "Ready to Ship" =>
                 /\ ~shipped /\ d >= 2 /\ d <= 3
                 /\ now >= order.order_date[1]

\* ------------------------------------------------- chat history: claims
\* Sender and text of the messages of a list.
Contents(messages) ==
    [i \in 1..Len(messages) |-> [sender |-> messages[i].sender,
                                 message |-> messages[i].message]]

\* The last n entries of a list, or all of them when there are fewer.
Newest(messages, n) ==
    [i \in 1..(IF Len(messages) < n THEN Len(messages) ELSE n) |->
        messages[Len(messages) - (IF Len(messages) < n THEN Len(messages) ELSE n) + i]]

\* C27: in a sequence of save_message_to_history and
\* get_conversation_history calls, a get_conversation_history(session,
\* limit) call that is answered from the cache, or whose query succeeds,
\* returns the last `limit` messages the table holds for the session (all
\* of them when there are fewer), oldest first.
C27_HistoryIsWhatTheTableHolds ==
    (hres.op = "get" /\ ~hres.failed) =>
        Contents(hres.out)
            = Contents(Newest(chat_conversations[hres.session_id], hres.limit))

\* C28: in a sequence of save_message_to_history and
\* get_conversation_history calls the cache of every session holds at most
\* 5 messages, and a save_message_to_history call whose write of the
\* message fails returns False and leaves the cache unchanged.
C28_CacheBoundedAndKeptOnFailure ==
    /\ [](\A session_id \in Sessions :
            message_cache[session_id] # <<>> => Len(message_cache[session_id][1]) <= 5)
    /\ [][(hres'.op = "save" /\ hres'.failed)
          => ~hres'.success /\ message_cache' = message_cache]_vars

\* C28 witness: a save returned True for a session whose cache held five
\* messages, and the cache holds the newest five.
C28_Witness ==
    /\ hres.op = "save" /\ hres.success
    /\ message_cache[hres.session_id] # <<>>
    /\ Len(message_cache[hres.session_id][1]) = 5
    /\ message_cache[hres.session_id][1][5].timestamp = "now"
    /\ message_cache[hres.session_id][1][1].timestamp = "created_at"

\* C29: when no save_message call is under way, every session that has
\* messages in chat_conversations has exactly one row in chat_sessions and
\* the total_messages of that row is the number of its messages; the
\* calls that returned False stored no message.
C29_OneSessionRowWithMessageCount ==
    (\A w \in Workers : hc[w].pc = "idle") =>
        \A session_id \in Sessions :
            LET rows == SessionRows(chat_sessions, session_id)
            IN /\ Len(rows) <= 1
               /\ chat_conversations[session_id] # <<>> =>
                     /\ Len(rows) = 1
                     /\ rows[1].total_messages = Len(chat_conversations[session_id])

====
